---- MODULE Spec2Model ----
(***************************************************************************)
(* Model of the rate-limited bulk sender of whatsapp-automation            *)
(* (src/src/bulk-sender.ts, src/src/validation.ts, src/src/utils.ts).      *)
(*                                                                         *)
(* JavaScript strings are sequences of one-character strings, a contact is *)
(* a record whose optional fields may be missing from its DOMAIN, and an   *)
(* async function is cut into one action per segment between two awaits.   *)
(***************************************************************************)
EXTENDS Integers, Sequences, FiniteSets, TLC

\* ------------------------------------------------------------------ bounds
MaxContacts == 6      \* longest recipient list fed to a batch
RandomSteps == 2      \* Math.random() is drawn from {0/R, 1/R, .. (R-1)/R}
MaxCliContacts == 2   \* longest recipient list the command line loads
MaxListLen == 4       \* longest recipient list given to validateContacts alone
MaxDelay == 2         \* largest delay bound given to validateDelayConfig alone
MaxInterval == 5      \* largest delay bound given to getRandomDelay alone
MaxQrEvents == 8      \* 'qr' events a client emits
MaxAuthenticated == 3 \* 'authenticated' events a client emits

\* --------------------------------------------------------------- constants
NO_DELAY_MAX == 100
MAX_CONSECUTIVE_FAILURES == 5
BACKOFF_CAP == 3
MAX_TEMPLATE_LENGTH == 10000
PHONE_MIN_DIGITS == 9
PHONE_MAX_DIGITS == 15
MAX_QR_ATTEMPTS == 5

\* ----------------------------------------------------------------- strings
DigitChars == <<"0", "1", "2", "3", "4", "5", "6", "7", "8", "9">>
Digits == {DigitChars[k] : k \in 1..10}
Letters ==
  {"a", "b", "c", "d", "e", "f", "g", "h", "i", "j", "k", "l", "m", "n", "o",
   "p", "q", "r", "s", "t", "u", "v", "w", "x", "y", "z", "A", "B", "C", "D",
   "E", "F", "G", "H", "I", "J", "K", "L", "M", "N", "O", "P", "Q", "R", "S",
   "T", "U", "V", "W", "X", "Y", "Z"}
\* \w of a JavaScript regular expression
WordChars == Letters \cup Digits \cup {"_"}
\* \s of a JavaScript regular expression (the members a model string uses)
Whitespace == {" ", "\t", "\n", "\r"}
\* [\s\-()] of isValidPhone
PhoneSeparators == Whitespace \cup {"-", "(", ")"}

Min(a, b) == IF a < b THEN a ELSE b

\* s.replace(/[set]/g, ''): s without the characters of drop
RECURSIVE Strip(_, _)
Strip(s, drop) ==
  IF s = <<>> THEN <<>>
  ELSE IF Head(s) \in drop THEN Strip(Tail(s), drop)
       ELSE <<Head(s)>> \o Strip(Tail(s), drop)

\* mutant: nothing is removed
DigitsOnly_Raw(s) == s

\* s.replace(/\D/g, ''): the digits of s, in order
RECURSIVE DigitsOnly(_)
DigitsOnly(s) ==
  IF s = <<>> THEN <<>>
  ELSE IF Head(s) \in Digits THEN <<Head(s)>> \o DigitsOnly(Tail(s))
       ELSE DigitsOnly(Tail(s))

\* s.trim().length === 0
IsBlank(s) == \A k \in 1..Len(s) : s[k] \in Whitespace

\* s.trim().length
TrimmedLength(s) ==
  IF IsBlank(s) THEN 0
  ELSE LET first == CHOOSE k \in 1..Len(s) :
                      /\ s[k] \notin Whitespace
                      /\ \A m \in 1..(k - 1) : s[m] \in Whitespace
           last  == CHOOSE k \in 1..Len(s) :
                      /\ s[k] \notin Whitespace
                      /\ \A m \in (k + 1)..Len(s) : s[m] \in Whitespace
       IN  last - first + 1

\* a field of a JavaScript object is truthy: present and not the empty string
Truthy(obj, f) == f \in DOMAIN obj /\ obj[f] # <<>>

\* ------------------------------------------------------------- validation
\* PHONE_REGEX = /^\+?\d{9,15}$/
MatchesPhoneRegex(s) ==
  LET body == IF s # <<>> /\ Head(s) = "+" THEN Tail(s) ELSE s
  IN  /\ Len(body) >= PHONE_MIN_DIGITS
      /\ Len(body) <= PHONE_MAX_DIGITS
      /\ \A k \in 1..Len(body) : body[k] \in Digits

\* mutant: the separators are not stripped before the test
isValidPhone_NoStrip(phone) == MatchesPhoneRegex(phone)

isValidPhone(phone) == MatchesPhoneRegex(Strip(phone, PhoneSeparators))

\* mutant: a missing or empty phone is not an error
validateContact_PhoneOptional(contact, index) ==
  LET nameErrors ==
        IF ~Truthy(contact, "name") \/ IsBlank(contact.name)
        THEN <<[field |-> "name", index |-> index,
                message |-> "Name is required"]>>
        ELSE <<>>
      phoneErrors ==
        IF ~Truthy(contact, "phone")
        THEN <<>>
        ELSE IF ~isValidPhone(contact.phone)
             THEN <<[field |-> "phone", index |-> index,
                     message |-> "Invalid phone number format"]>>
             ELSE <<>>
  IN  nameErrors \o phoneErrors

\* index is the JavaScript (0-based) index of the contact
validateContact(contact, index) ==
  LET nameErrors ==
        IF ~Truthy(contact, "name") \/ IsBlank(contact.name)
        THEN <<[field |-> "name", index |-> index,
                message |-> "Name is required"]>>
        ELSE <<>>
      phoneErrors ==
        IF ~Truthy(contact, "phone") \/ IsBlank(contact.phone)
        THEN <<[field |-> "phone", index |-> index,
                message |-> "Phone number is required"]>>
        ELSE IF ~isValidPhone(contact.phone)
             THEN <<[field |-> "phone", index |-> index,
                     message |-> "Invalid phone number format"]>>
             ELSE <<>>
  IN  nameErrors \o phoneErrors

RECURSIVE ContactErrorsFrom(_, _)
ContactErrorsFrom(contacts, k) ==
  IF k > Len(contacts) THEN <<>>
  ELSE validateContact(contacts[k], k - 1) \o ContactErrorsFrom(contacts, k + 1)

\* phones.get(normalized): the position of the Map entry keyed by phone, 0 if
\* the Map has none
GroupOf(groups, phone) ==
  IF \E g \in 1..Len(groups) : groups[g].phone = phone
  THEN CHOOSE g \in 1..Len(groups) : groups[g].phone = phone
  ELSE 0

\* the Map of normalized phone to the (0-based) indices carrying it, as the
\* forEach from contact k on leaves it; entries in insertion order
RECURSIVE PhoneGroups(_, _, _)
PhoneGroups(contacts, k, groups) ==
  IF k > Len(contacts) THEN groups
  ELSE IF ~Truthy(contacts[k], "phone") THEN PhoneGroups(contacts, k + 1, groups)
  ELSE LET normalized == DigitsOnly(contacts[k].phone)
           g == GroupOf(groups, normalized)
       IN  PhoneGroups(contacts, k + 1,
             IF g = 0
             THEN Append(groups, [phone |-> normalized, indices |-> <<k - 1>>])
             ELSE [groups EXCEPT ![g].indices = Append(@, k - 1)])

\* mutant: duplicates are not reported
DuplicateErrors_None(groups) == <<>>

\* one error per Map entry holding more than one index
RECURSIVE DuplicateErrors(_)
DuplicateErrors(groups) ==
  IF groups = <<>> THEN <<>>
  ELSE (IF Len(Head(groups).indices) > 1
        THEN <<[field |-> "contacts", indices |-> Head(groups).indices,
                message |-> "Duplicate phone number",
                phone |-> Head(groups).phone]>>
        ELSE <<>>) \o DuplicateErrors(Tail(groups))

\* mutant: an empty list is not rejected
validateContacts_EmptyAccepted(contacts) ==
  LET errors == ContactErrorsFrom(contacts, 1)
                  \o DuplicateErrors(PhoneGroups(contacts, 1, <<>>))
  IN  [valid |-> errors = <<>>, errors |-> errors]

validateContacts(contacts) ==
  IF Len(contacts) = 0
  THEN [valid |-> FALSE,
        errors |-> <<[field |-> "contacts",
                      message |-> "Contact list is empty"]>>]
  ELSE LET errors == ContactErrorsFrom(contacts, 1)
                       \o DuplicateErrors(PhoneGroups(contacts, 1, <<>>))
       IN  [valid |-> errors = <<>>, errors |-> errors]

validPlaceholders ==
  {<<"n", "a", "m", "e">>,
   <<"f", "i", "r", "s", "t", "N", "a", "m", "e">>,
   <<"l", "a", "s", "t", "N", "a", "m", "e">>,
   <<"c", "o", "m", "p", "a", "n", "y">>,
   <<"c", "u", "s", "t", "o", "m", "F", "i", "e", "l", "d">>}

\* the first position at or after p that does not hold a word character
RECURSIVE WordEnd(_, _)
WordEnd(s, p) ==
  IF p <= Len(s) /\ s[p] \in WordChars THEN WordEnd(s, p + 1) ELSE p

\* successive matches of /\{(\w+)\}/g from position p: the captured words.
\* The scan resumes at the next '{' at or after p.
RECURSIVE PlaceholdersFrom(_, _)
PlaceholdersFrom(s, p) ==
  LET braces == {q \in p..Len(s) : s[q] = "{"}
  IN  IF braces = {} THEN <<>>
      ELSE LET b == CHOOSE q \in braces : \A m \in braces : q <= m
               e == WordEnd(s, b + 1)
           IN  IF e > b + 1 /\ e <= Len(s) /\ s[e] = "}"
               THEN <<SubSeq(s, b + 1, e - 1)>> \o PlaceholdersFrom(s, e + 1)
               ELSE PlaceholdersFrom(s, b + 1)

\* mutant: the scan stops at the first unknown placeholder
UnknownPlaceholderErrors_FirstOnly(words) ==
  LET unknown == SelectSeq(words, LAMBDA w : w \notin validPlaceholders)
  IN  IF unknown = <<>> THEN <<>>
      ELSE <<[field |-> "messageTemplate", message |-> "Unknown placeholder",
              word |-> Head(unknown)]>>

RECURSIVE UnknownPlaceholderErrors(_)
UnknownPlaceholderErrors(words) ==
  IF words = <<>> THEN <<>>
  ELSE (IF Head(words) \notin validPlaceholders
        THEN <<[field |-> "messageTemplate",
                message |-> "Unknown placeholder", word |-> Head(words)]>>
        ELSE <<>>) \o UnknownPlaceholderErrors(Tail(words))

validateMessageTemplate(template) ==
  IF template = <<>> \/ IsBlank(template)
  THEN [valid |-> FALSE,
        errors |-> <<[field |-> "messageTemplate",
                      message |-> "Message template is required"]>>]
  ELSE LET lengthErrors ==
             IF TrimmedLength(template) > MAX_TEMPLATE_LENGTH
             THEN <<[field |-> "messageTemplate",
                     message |-> "Message template exceeds maximum length"]>>
             ELSE <<>>
           errors == lengthErrors
                       \o UnknownPlaceholderErrors(PlaceholdersFrom(template, 1))
       IN  [valid |-> errors = <<>>, errors |-> errors]

\* mutant: the checks stop at the first violation
validateDelayConfig_FirstOnly(config) ==
  LET errors ==
        IF config.min < 0
        THEN <<[field |-> "delay.min",
                message |-> "Minimum delay cannot be negative"]>>
        ELSE IF config.max < 0
        THEN <<[field |-> "delay.max",
                message |-> "Maximum delay cannot be negative"]>>
        ELSE IF config.min > config.max
        THEN <<[field |-> "delay",
                message |-> "Minimum delay cannot exceed maximum"]>>
        ELSE IF config.personalized.min < 0
        THEN <<[field |-> "delay.personalized.min",
                message |-> "Personalized minimum delay cannot be negative"]>>
        ELSE IF config.personalized.max < 0
        THEN <<[field |-> "delay.personalized.max",
                message |-> "Personalized maximum delay cannot be negative"]>>
        ELSE IF config.personalized.min > config.personalized.max
        THEN <<[field |-> "delay.personalized",
                message |-> "Personalized minimum cannot exceed maximum"]>>
        ELSE <<>>
  IN  [valid |-> errors = <<>>, errors |-> errors]

validateDelayConfig(config) ==
  LET Err(cond, f, m) == IF cond THEN <<[field |-> f, message |-> m]>> ELSE <<>>
      errors ==
        Err(config.min < 0, "delay.min", "Minimum delay cannot be negative")
        \o Err(config.max < 0, "delay.max", "Maximum delay cannot be negative")
        \o Err(config.min > config.max, "delay",
               "Minimum delay cannot exceed maximum")
        \o Err(config.personalized.min < 0, "delay.personalized.min",
               "Personalized minimum delay cannot be negative")
        \o Err(config.personalized.max < 0, "delay.personalized.max",
               "Personalized maximum delay cannot be negative")
        \o Err(config.personalized.min > config.personalized.max,
               "delay.personalized", "Personalized minimum cannot exceed maximum")
  IN  [valid |-> errors = <<>>, errors |-> errors]

\* --------------------------------------------------------- personalization
\* s.split(' '): the pieces of s between its single space characters
RECURSIVE SplitOnSpace(_)
SplitOnSpace(s) ==
  LET spaces == {k \in 1..Len(s) : s[k] = " "}
  IN  IF spaces = {} THEN <<s>>
      ELSE LET k == CHOOSE q \in spaces : \A m \in spaces : q <= m
           IN  <<SubSeq(s, 1, k - 1)>>
                 \o SplitOnSpace(SubSeq(s, k + 1, Len(s)))

\* parts.join(' ')
RECURSIVE JoinWithSpace(_)
JoinWithSpace(parts) ==
  IF parts = <<>> THEN <<>>
  ELSE IF Len(parts) = 1 THEN parts[1]
  ELSE parts[1] \o <<" ">> \o JoinWithSpace(Tail(parts))

\* contact.firstName ?? contact.name?.split(' ')[0] ?? ''
firstNameOf(contact) ==
  IF "firstName" \in DOMAIN contact THEN contact.firstName
  ELSE IF "name" \in DOMAIN contact THEN SplitOnSpace(contact.name)[1]
  ELSE <<>>

\* contact.lastName ?? contact.name?.split(' ').slice(1).join(' ') ?? ''
lastNameOf(contact) ==
  IF "lastName" \in DOMAIN contact THEN contact.lastName
  ELSE IF "name" \in DOMAIN contact
  THEN JoinWithSpace(Tail(SplitOnSpace(contact.name)))
  ELSE <<>>

\* what String.prototype.replace inserts for the replacement string repl at
\* a match of a pattern without capture groups: $$ is a '$', $& the matched
\* text, $` the text before the match, $' the text after it
RECURSIVE ExpandReplacement(_, _, _, _)
ExpandReplacement(repl, matched, before, after) ==
  IF repl = <<>> THEN <<>>
  ELSE IF Head(repl) = "$" /\ Len(repl) >= 2 /\ repl[2] \in {"$", "&", "`", "'"}
  THEN (CASE repl[2] = "$" -> <<"$">>
          [] repl[2] = "&" -> matched
          [] repl[2] = "`" -> before
          [] repl[2] = "'" -> after)
         \o ExpandReplacement(Tail(Tail(repl)), matched, before, after)
  ELSE <<Head(repl)>> \o ExpandReplacement(Tail(repl), matched, before, after)

\* s.replace(/token/g, repl) from position p on
RECURSIVE ReplaceFrom(_, _, _, _)
ReplaceFrom(s, p, token, repl) ==
  IF p > Len(s) THEN <<>>
  ELSE IF /\ p + Len(token) - 1 <= Len(s)
          /\ SubSeq(s, p, p + Len(token) - 1) = token
  THEN ExpandReplacement(repl, token, SubSeq(s, 1, p - 1),
                         SubSeq(s, p + Len(token), Len(s)))
         \o ReplaceFrom(s, p + Len(token), token, repl)
  ELSE <<s[p]>> \o ReplaceFrom(s, p + 1, token, repl)

Token_name == <<"{", "n", "a", "m", "e", "}">>
Token_firstName == <<"{", "f", "i", "r", "s", "t", "N", "a", "m", "e", "}">>
Token_lastName == <<"{", "l", "a", "s", "t", "N", "a", "m", "e", "}">>
Token_company == <<"{", "c", "o", "m", "p", "a", "n", "y", "}">>
Token_customField ==
  <<"{", "c", "u", "s", "t", "o", "m", "F", "i", "e", "l", "d", "}">>

\* contact[f] ?? ''
OrEmpty(contact, f) == IF f \in DOMAIN contact THEN contact[f] ELSE <<>>

\* the chain of five replace calls
personalizeMessage(template, contact) ==
  LET s1 == ReplaceFrom(template, 1, Token_name, OrEmpty(contact, "name"))
      s2 == ReplaceFrom(s1, 1, Token_firstName, firstNameOf(contact))
      s3 == ReplaceFrom(s2, 1, Token_lastName, lastNameOf(contact))
      s4 == ReplaceFrom(s3, 1, Token_company, OrEmpty(contact, "company"))
  IN  ReplaceFrom(s4, 1, Token_customField, OrEmpty(contact, "customField"))

\* The personalizeMessage of the JavaScript program the TypeScript one was
\* migrated from (bulkSender.js), with || where the migrated one has ??.

\* contact[f] || ''
OrElseEmpty(contact, f) == IF Truthy(contact, f) THEN contact[f] ELSE <<>>

\* contact.firstName || contact.name?.split(' ')[0] || ''
legacyFirstNameOf(contact) ==
  IF Truthy(contact, "firstName") THEN contact.firstName
  ELSE IF "name" \in DOMAIN contact THEN SplitOnSpace(contact.name)[1]
  ELSE <<>>

\* contact.lastName || contact.name?.split(' ').slice(1).join(' ') || ''
legacyLastNameOf(contact) ==
  IF Truthy(contact, "lastName") THEN contact.lastName
  ELSE IF "name" \in DOMAIN contact
  THEN JoinWithSpace(Tail(SplitOnSpace(contact.name)))
  ELSE <<>>

\* the chain of five replace calls of bulkSender.js
legacyPersonalizeMessage(template, contact) ==
  LET s1 == ReplaceFrom(template, 1, Token_name, OrElseEmpty(contact, "name"))
      s2 == ReplaceFrom(s1, 1, Token_firstName, legacyFirstNameOf(contact))
      s3 == ReplaceFrom(s2, 1, Token_lastName, legacyLastNameOf(contact))
      s4 == ReplaceFrom(s3, 1, Token_company, OrElseEmpty(contact, "company"))
  IN  ReplaceFrom(s4, 1, Token_customField,
                  OrElseEmpty(contact, "customField"))

\* ------------------------------------------------------------ delay policy
\* mutant: the upper bound is excluded
getRandomDelayAt_Exclusive(min, max, num, den) ==
  ((num * (max - min)) \div den) + min

\* Math.floor(Math.random() * (max - min + 1)) + min with
\* Math.random() = num / den
getRandomDelayAt(min, max, num, den) ==
  ((num * (max - min + 1)) \div den) + min

\* mutant: the lower bound is not added back
getRandomDelay_NoMin(min, max, r) == (r * (max - min + 1)) \div RandomSteps

\* Math.random() = r / RandomSteps
getRandomDelay(min, max, r) == getRandomDelayAt(min, max, r, RandomSteps)

RandomSource == 0..(RandomSteps - 1)

\* ------------------------------------------------------------------ inputs
Str_AlB == <<"A", "l", " ", "B">>
Str_Hi_name == <<"H", "i", " ", "{", "n", "a", "m", "e", "}">>
Str_Hi_unknownField ==
  <<"H", "i", " ", "{", "u", "n", "k", "n", "o", "w", "n", "F", "i", "e", "l",
    "d", "}">>

\* a well-formed recipient for position k (1-based); odd positions carry a
\* phone written with separators, every position has its own digits
GoodContact(k) ==
  LET d == DigitChars[(k % 10) + 1]
  IN  [name  |-> Str_AlB,
       phone |-> IF k % 2 = 1
                 THEN <<"+", "9", "7", "2", "-", "5", "0", " ", "1", "2", "3",
                        "4", "5">> \o <<d>>
                 ELSE <<"9", "7", "2", "5", "0", "1", "2", "3", "4", "5">>
                        \o <<d>>]

DefectKinds == {"noPhone", "emptyPhone", "shortPhone", "dupPhone", "blankName"}

DefectiveContact(kind, k) ==
  CASE kind = "noPhone"    -> [name |-> Str_AlB]
    [] kind = "emptyPhone" -> [name |-> Str_AlB, phone |-> <<>>]
    [] kind = "shortPhone" -> [name |-> Str_AlB, phone |-> <<"1", "2", "-", "3">>]
    [] kind = "dupPhone"   ->
         [name |-> Str_AlB,
          phone |-> <<"(", "9", "7", "2", ")", "5", "0", "1", "2", "3", "4",
                      "5", "1">>]
    [] kind = "blankName"  -> [name |-> <<" ", " ">>, phone |-> GoodContact(k).phone]

\* the recipient lists a batch is started with: up to MaxContacts recipients,
\* at most one of them defective
ContactLists ==
  {[k \in 1..n |-> GoodContact(k)] : n \in 0..MaxContacts}
  \cup
  UNION {{[k \in 1..n |-> IF k = pos THEN DefectiveContact(kind, k)
                                     ELSE GoodContact(k)]
            : pos \in 1..n, kind \in DefectKinds} : n \in 1..MaxContacts}

MessageTemplates == {Str_Hi_name, Str_Hi_unknownField, <<" ">>, <<>>}

DelayConfigs ==
  {[min |-> 1, max |-> 2, personalized |-> [min |-> 3, max |-> 4]],
   [min |-> 0, max |-> 1, personalized |-> [min |-> 0, max |-> 0]],
   [min |-> 2, max |-> 1, personalized |-> [min |-> 3, max |-> 4]],
   [min |-> 1, max |-> 2, personalized |-> [min |-> -1, max |-> 4]]}

BulkSendOptions == [validateNumbers : BOOLEAN, personalize : BOOLEAN]

\* --------------------------------------------------- command-line inputs
\* process.argv.slice(2): whether it holds the two file names, and which
\* flags it includes
ArgLists == [enough : BOOLEAN, dryRun : BOOLEAN, validate : BOOLEAN,
             noDelay : BOOLEAN]

\* the message file: unreadable, or its text
MessageFiles ==
  {[readable |-> FALSE, text |-> <<>>]}
  \cup {[readable |-> TRUE, text |-> t] : t \in MessageTemplates}

\* what loadContacts returns: null, a parsed JSON value that is not an
\* array, or an array of at most MaxCliContacts recipients
ContactsFiles ==
  {[kind |-> "null", list |-> <<>>], [kind |-> "object", list |-> <<>>]}
  \cup {[kind |-> "array", list |-> c] :
          c \in {l \in ContactLists : Len(l) <= MaxCliContacts}}

\* the delay configuration --no-delay selects
NoDelayConfig ==
  [min |-> 0, max |-> NO_DELAY_MAX, personalized |-> [min |-> 0, max |-> 0]]

\* ------------------------------------------------------------------- state
VARIABLES
  contacts,             \* argument: the recipient list (<<>> when the
                        \* argument is not an array)
  contactsIsArray,      \* Array.isArray(contacts)
  messageTemplate,      \* argument: the template
  options,              \* argument: BulkSendOptions
  delayConfig,          \* argument: DelayConfig
  pc,                   \* "start", the await the function is suspended at
                        \* ("isRegisteredUser", "sendMessage", "delay"),
                        \* "returned" or "threw"
  exit,                 \* which way the function returned ("none" before)
  i,                    \* loop index (0-based, as in the code)
  consecutiveFailures,
  results,              \* BulkSendResults
  regCalls,             \* number of client.isRegisteredUser calls made
  sendCalls,            \* number of client.sendMessage calls made
  delayCalls,           \* number of delay() calls made
  sendTarget,           \* index and chat id of the latest sendMessage call
  regOutcome,           \* index and outcome of the latest settled
                        \* isRegisteredUser call
  waits,                \* durations of the delay() calls made since the
                        \* latest sendMessage call
  fnCall,               \* a validator or utility function applied on its
                        \* own: its name, its arguments, whether it has
                        \* returned, and what it returned
  args,                 \* the command line (an ArgLists record)
  main,                 \* the command-line process: where main() or its
                        \* 'ready' handler stands, the exit code (-1 while
                        \* running), the client, the ready timer, and the
                        \* number of client.destroy() calls
  qrAttempts,           \* createClient's counter of 'qr' events
  qrHistory             \* the events the client has emitted: how many 'qr'
                        \* and 'authenticated' events in all, how many
                        \* 'qr' events and rendered codes since the latest
                        \* 'authenticated' event (or since creation), and
                        \* whether the latest 'qr' event rendered a code

vars == <<contacts, contactsIsArray, messageTemplate, options, delayConfig, pc, exit, i,
          consecutiveFailures, results, regCalls, sendCalls, delayCalls,
          sendTarget, regOutcome, waits, fnCall, args, main, qrAttempts,
          qrHistory>>

inputs == <<contacts, contactsIsArray, messageTemplate, options, delayConfig>>

factory == <<qrAttempts, qrHistory>>

caller == <<args, main, factory>>

NotExited == -1

\* no function is applied on its own
NoCall == [fn |-> "none", done |-> FALSE]

\* a client that has emitted no event
NoEvents == [qr |-> 0, authenticated |-> 0, since |-> 0, shown |-> 0,
             rendered |-> FALSE]

\* let qrAttempts = 0
NewClient ==
  /\ qrAttempts = 0
  /\ qrHistory = NoEvents

\* no 'ready' event has been handled a second time
NoSecond == [pc |-> "none", i |-> 0, consecutiveFailures |-> 0,
             destroyCalls |-> 0]

\* sendBulkMessages called by a program other than the command line
NoProcess ==
  /\ args = [enough |-> FALSE, dryRun |-> FALSE, validate |-> FALSE,
             noDelay |-> FALSE]
  /\ main = [pc |-> "none", exitCode |-> NotExited, client |-> "none",
             readyTimeout |-> "unset", destroyCalls |-> 0, batches |-> 0,
             second |-> NoSecond]
  /\ fnCall = NoCall
  /\ NewClient

\* process.exit has not been called
ProcessAlive == main.pc # "exited"

NoResults == [total |-> 0, sent |-> 0, failed |-> 0, skipped |-> 0,
              details |-> <<>>]

\* the state of a call that has not run yet
NotStarted ==
  /\ pc = "start"
  /\ exit = "none"
  /\ i = 0
  /\ consecutiveFailures = 0
  /\ results = NoResults
  /\ regCalls = 0
  /\ sendCalls = 0
  /\ delayCalls = 0
  /\ sendTarget = [index |-> -1, chatId |-> <<>>]
  /\ regOutcome = [index |-> -1, result |-> "none"]
  /\ waits = <<>>

\* a call with arguments of the declared types
Init ==
  /\ contacts \in ContactLists
  /\ contactsIsArray = TRUE
  /\ messageTemplate \in MessageTemplates
  /\ options \in BulkSendOptions
  /\ delayConfig \in DelayConfigs
  /\ NotStarted
  /\ NoProcess

\* a call whose first argument may be any JavaScript value: an array as in
\* Init, or a value that is not an array (null, undefined, an object)
InitUntyped ==
  /\ \/ contacts \in ContactLists /\ contactsIsArray = TRUE
     \/ contacts = <<>> /\ contactsIsArray = FALSE
  /\ messageTemplate \in MessageTemplates
  /\ options \in BulkSendOptions
  /\ delayConfig \in DelayConfigs
  /\ NotStarted
  /\ NoProcess

\* ------------------------------------------------------- sendBulkMessages
\* mutant: the rejection result reports no recipient at all
ValidationFailureResult_NoDetails(reason) ==
  [total |-> Len(contacts), sent |-> 0, failed |-> 0, skipped |-> 0,
   details |-> <<>>]

\* the result returned when a validator rejects the input
ValidationFailureResult(reason) ==
  [total   |-> Len(contacts),
   sent    |-> 0,
   failed  |-> 0,
   skipped |-> Len(contacts),
   details |-> [k \in 1..Len(contacts) |->
                  [contact |-> contacts[k], status |-> "skipped",
                   reason |-> reason]]]

\* mutant: a skip is recorded in details but not counted
PushSkipped_NoCount(res, contact, reason) ==
  [res EXCEPT !.details = Append(@, [contact |-> contact, status |-> "skipped",
                                     reason |-> reason])]

\* results.skipped++; results.details.push({contact, 'skipped', reason})
PushSkipped(res, contact, reason) ==
  [res EXCEPT !.skipped = @ + 1,
              !.details = Append(@, [contact |-> contact, status |-> "skipped",
                                     reason |-> reason])]

\* results.sent++; results.details.push({contact, 'sent'})
PushSent(res, contact) ==
  [res EXCEPT !.sent = @ + 1,
              !.details = Append(@, [contact |-> contact, status |-> "sent"])]

\* results.failed++; results.details.push({contact, 'failed', error})
PushFailed(res, contact, message) ==
  [res EXCEPT !.failed = @ + 1,
              !.details = Append(@, [contact |-> contact, status |-> "failed",
                                     error |-> message])]

\* for (let j = i; j < contacts.length; j++) push skipped
RECURSIVE MarkRemaining(_, _)
MarkRemaining(res, j) ==
  IF j >= Len(contacts) THEN res
  ELSE MarkRemaining(
         PushSkipped(res, contacts[j + 1], "Aborted due to consecutive failures"),
         j + 1)

\* mutant: the batch is aborted one failure early
ShouldAbort_Early(failures) == failures >= MAX_CONSECUTIVE_FAILURES - 1

\* mutant: the threshold test is strict
ShouldAbort_OffByOne(failures) == failures > MAX_CONSECUTIVE_FAILURES

\* if (consecutiveFailures >= MAX_CONSECUTIVE_FAILURES)
ShouldAbort(failures) == failures >= MAX_CONSECUTIVE_FAILURES

\* mutant: the last recipient is followed by a wait too
ShouldWait_IncludingLast(j) == j < Len(contacts)

\* if (i < contacts.length - 1): a wait follows recipient j
ShouldWait(j) == j < Len(contacts) - 1

\* mutant: the back-off is not capped
BackoffMultiplier_Uncapped(failures) == failures

\* Math.min(consecutiveFailures, 3)
BackoffMultiplier(failures) == Min(failures, BACKOFF_CAP)

\* contact.phone.replace(/\D/g, '') + '@c.us'
ChatId(contact) == DigitsOnly(contact.phone) \o <<"@", "c", ".", "u", "s">>

\* mutant: the personalized delay is added whatever options.personalize says
SuccessDelay_AlwaysPersonalized(r1, r2) ==
  getRandomDelay(delayConfig.min, delayConfig.max, r1)
    + getRandomDelay(delayConfig.personalized.min,
                     delayConfig.personalized.max, r2)

\* waitTime + additionalDelay after a successful send
SuccessDelay(r1, r2) ==
  getRandomDelay(delayConfig.min, delayConfig.max, r1)
    + (IF options.personalize
       THEN getRandomDelay(delayConfig.personalized.min,
                           delayConfig.personalized.max, r2)
       ELSE 0)

\* backoffDelay after a failed send
BackoffDelay(failures, r) ==
  getRandomDelay(delayConfig.min, delayConfig.max, r) * BackoffMultiplier(failures)

\* mutant: the loop body has no catch clause of its own
CatchClause_InnerOnly(call) ==
  IF call = "isRegisteredUser" THEN "regError" ELSE "none"

\* mutant: the registration check has no try/catch of its own
CatchClause_OuterOnly(call) == "error"

\* which catch clause receives an error raised by the awaited call
CatchClause(call) ==
  CASE call = "isRegisteredUser" -> "regError"
    [] call = "sendMessage"      -> "error"
    [] OTHER                     -> "none"

\* mutant: the registration check is made whatever the option says
RegistrationCheckEnabled_Always == TRUE

\* if (options.validateNumbers)
RegistrationCheckEnabled == options.validateNumbers

\* The loop from the head of iteration j up to the next await or the return,
\* with the failure count it is entered with: where the function stops, and
\* the results so far.
RECURSIVE RunLoop(_, _, _)
RunLoop(j, res, failures) ==
  IF j >= Len(contacts)
  THEN [pc |-> "returned", exit |-> "completed", i |-> j, results |-> res]
  ELSE IF ShouldAbort(failures)
  THEN [pc |-> "returned", exit |-> "aborted", i |-> j,
        results |-> MarkRemaining(res, j)]
  ELSE IF ~Truthy(contacts[j + 1], "phone")
  THEN RunLoop(j + 1, PushSkipped(res, contacts[j + 1], "No phone number"),
               failures)
  ELSE IF RegistrationCheckEnabled
  THEN [pc |-> "isRegisteredUser", exit |-> "none", i |-> j, results |-> res]
  ELSE [pc |-> "sendMessage", exit |-> "none", i |-> j, results |-> res]

\* mutant: isRegisteredUser is called without await, sendMessage right after
MoveTo_RegistrationNotAwaited(s) ==
  /\ pc' = IF s.pc = "isRegisteredUser" THEN "sendMessage" ELSE s.pc
  /\ exit' = s.exit
  /\ i' = s.i
  /\ results' = s.results
  /\ regCalls' = IF s.pc = "isRegisteredUser" THEN regCalls + 1 ELSE regCalls
  /\ sendCalls' = IF s.pc \in {"isRegisteredUser", "sendMessage"}
                  THEN sendCalls + 1 ELSE sendCalls
  /\ sendTarget' = IF s.pc \in {"isRegisteredUser", "sendMessage"}
                   THEN [index |-> s.i, chatId |-> ChatId(contacts[s.i + 1])]
                   ELSE sendTarget
  /\ waits' = IF s.pc \in {"isRegisteredUser", "sendMessage"} THEN <<>> ELSE waits
  /\ delayCalls' = delayCalls

\* the function moves to the stop s, making the transport call s stops at
MoveTo(s) ==
  /\ pc' = s.pc
  /\ exit' = s.exit
  /\ i' = s.i
  /\ results' = s.results
  /\ regCalls' = IF s.pc = "isRegisteredUser" THEN regCalls + 1 ELSE regCalls
  /\ sendCalls' = IF s.pc = "sendMessage" THEN sendCalls + 1 ELSE sendCalls
  /\ sendTarget' = IF s.pc = "sendMessage"
                   THEN [index |-> s.i, chatId |-> ChatId(contacts[s.i + 1])]
                   ELSE sendTarget
  /\ waits' = IF s.pc = "sendMessage" THEN <<>> ELSE waits
  /\ delayCalls' = delayCalls

\* await delay(ms)
StartDelay(res, ms) ==
  /\ pc' = "delay"
  /\ results' = res
  /\ delayCalls' = delayCalls + 1
  /\ waits' = Append(waits, ms)
  /\ UNCHANGED <<exit, i, regCalls, sendCalls, sendTarget>>

\* validateContacts(contacts) as sendBulkMessages calls it: a value that is
\* not an array is reported, not raised
contactValidation ==
  IF ~contactsIsArray
  THEN [valid |-> FALSE,
        errors |-> <<[field |-> "contacts",
                      message |-> "Contacts must be an array"]>>]
  ELSE validateContacts(contacts)

\* contacts.length and contacts.map raise a TypeError on a value that is not
\* an array
LengthRaises == ~contactsIsArray

\* an error leaves the async function: its promise is rejected
Throw ==
  /\ pc' = "threw"
  /\ UNCHANGED <<exit, i, results, regCalls, sendCalls, delayCalls, sendTarget,
                 waits>>

\* mutant: the template is validated before the recipients
Call_TemplateFirst ==
  /\ pc = "start"
  /\ IF ~contactValidation.valid /\ LengthRaises
     THEN Throw
     ELSE IF ~validateMessageTemplate(messageTemplate).valid
     THEN MoveTo([pc |-> "returned", exit |-> "invalid", i |-> i,
                  results |-> ValidationFailureResult("Invalid message template")])
     ELSE IF ~contactValidation.valid
     THEN MoveTo([pc |-> "returned", exit |-> "invalid", i |-> i,
                  results |-> ValidationFailureResult(
                                "Validation failed before sending")])
     ELSE IF ~validateDelayConfig(delayConfig).valid
     THEN MoveTo([pc |-> "returned", exit |-> "invalid", i |-> i,
                  results |-> ValidationFailureResult(
                                "Invalid delay configuration")])
     ELSE MoveTo(RunLoop(0, [NoResults EXCEPT !.total = Len(contacts)], 0))
  /\ UNCHANGED <<inputs, consecutiveFailures, regOutcome>>

\* the call: validation, then the loop up to its first await
Call ==
  /\ pc = "start"
  /\ IF ~contactValidation.valid /\ LengthRaises
     THEN Throw
     ELSE IF ~contactValidation.valid
     THEN MoveTo([pc |-> "returned", exit |-> "invalid", i |-> i,
                  results |-> ValidationFailureResult(
                                "Validation failed before sending")])
     ELSE IF ~validateMessageTemplate(messageTemplate).valid
     THEN MoveTo([pc |-> "returned", exit |-> "invalid", i |-> i,
                  results |-> ValidationFailureResult("Invalid message template")])
     ELSE IF ~validateDelayConfig(delayConfig).valid
     THEN MoveTo([pc |-> "returned", exit |-> "invalid", i |-> i,
                  results |-> ValidationFailureResult(
                                "Invalid delay configuration")])
     ELSE MoveTo(RunLoop(0, [NoResults EXCEPT !.total = Len(contacts)], 0))
  /\ UNCHANGED <<inputs, consecutiveFailures, regOutcome>>

\* sendBulkMessages is called by a program other than the command line
Start ==
  /\ main.pc = "none"
  /\ Call
  /\ UNCHANGED <<caller, fnCall>>

\* mutant: the catch clause sends to the same recipient again
OuterCatch_Retry ==
  /\ consecutiveFailures' = consecutiveFailures + 1
  /\ MoveTo([pc |-> "sendMessage", exit |-> "none", i |-> i,
             results |-> results])

\* mutant: the catch clause records the failure without counting it
OuterCatch_NoCount ==
  /\ consecutiveFailures' = consecutiveFailures
  /\ LET res == PushFailed(results, contacts[i + 1], "transport error")
     IN  IF ShouldWait(i)
         THEN \E r \in RandomSource :
                StartDelay(res, BackoffDelay(consecutiveFailures' + 1, r))
         ELSE MoveTo(RunLoop(i + 1, res, consecutiveFailures'))

\* the catch (error) clause of the loop body
OuterCatch ==
  /\ consecutiveFailures' = consecutiveFailures + 1
  /\ LET res == PushFailed(results, contacts[i + 1], "transport error")
     IN  IF ShouldWait(i)
         THEN \E r \in RandomSource :
                StartDelay(res, BackoffDelay(consecutiveFailures', r))
         ELSE MoveTo(RunLoop(i + 1, res, consecutiveFailures'))

\* an error raised by the awaited transport call reaches its catch clause
Raise(call) ==
  LET clause == CatchClause(call)
  IN  CASE clause = "regError" ->
             \* warning only: go on to personalizeMessage and sendMessage
             /\ MoveTo([pc |-> "sendMessage", exit |-> "none", i |-> i,
                        results |-> results])
             /\ UNCHANGED consecutiveFailures
        [] clause = "error" -> OuterCatch
        [] OTHER ->
             /\ pc' = "threw"
             /\ UNCHANGED <<exit, i, consecutiveFailures, results, regCalls,
                            sendCalls, delayCalls, sendTarget, waits>>

\* await client.isRegisteredUser(chatId) resolves
RegisteredResolves ==
  /\ ProcessAlive
  /\ pc = "isRegisteredUser"
  /\ \E isRegistered \in BOOLEAN :
       /\ regOutcome' = [index |-> i,
                         result |-> IF isRegistered THEN "true" ELSE "false"]
       /\ IF ~isRegistered
          THEN MoveTo(RunLoop(i + 1,
                              PushSkipped(results, contacts[i + 1], "Not registered"),
                              consecutiveFailures))
          ELSE MoveTo([pc |-> "sendMessage", exit |-> "none", i |-> i,
                       results |-> results])
  /\ UNCHANGED <<inputs, caller, fnCall, consecutiveFailures>>

\* await client.isRegisteredUser(chatId) rejects
RegisteredRejects ==
  /\ ProcessAlive
  /\ pc = "isRegisteredUser"
  /\ regOutcome' = [index |-> i, result |-> "threw"]
  /\ Raise("isRegisteredUser")
  /\ UNCHANGED <<inputs, caller, fnCall>>

\* await client.sendMessage(chatId, personalizedMsg) resolves
SendResolves ==
  /\ ProcessAlive
  /\ pc = "sendMessage"
  /\ consecutiveFailures' = 0
  /\ LET res == PushSent(results, contacts[i + 1])
     IN  IF ShouldWait(i)
         THEN \E r1 \in RandomSource, r2 \in RandomSource :
                StartDelay(res, SuccessDelay(r1, r2))
         ELSE MoveTo(RunLoop(i + 1, res, 0))
  /\ UNCHANGED <<inputs, caller, fnCall, regOutcome>>

\* await client.sendMessage(chatId, personalizedMsg) rejects
SendRejects ==
  /\ ProcessAlive
  /\ pc = "sendMessage"
  /\ Raise("sendMessage")
  /\ UNCHANGED <<inputs, caller, fnCall, regOutcome>>

\* mutant: the promise of delay() is never resolved
DelayElapses_Never ==
  /\ pc = "delay"
  /\ FALSE
  /\ UNCHANGED vars

\* await delay(...) resolves: next iteration
DelayElapses ==
  /\ ProcessAlive
  /\ pc = "delay"
  /\ MoveTo(RunLoop(i + 1, results, consecutiveFailures))
  /\ UNCHANGED <<inputs, caller, fnCall, consecutiveFailures, regOutcome>>

Next ==
  \/ Start
  \/ RegisteredResolves
  \/ RegisteredRejects
  \/ SendResolves
  \/ SendRejects
  \/ DelayElapses

Spec == Init /\ [][Next]_vars

SpecUntyped == InitUntyped /\ [][Next]_vars

\* The batch under the scheduling the event loop gives it once it is called:
\* every transport call settles, by resolving or by rejecting, and a timer
\* set by delay() fires. Whether the call is made is up to the caller.
Fairness ==
  /\ WF_vars(RegisteredResolves \/ RegisteredRejects)
  /\ WF_vars(SendResolves \/ SendRejects)
  /\ WF_vars(DelayElapses)

\* the calls of Init with one delay configuration that passes validation and
\* one that does not: how long a wait lasts has no part in whether it ends
InitLive ==
  /\ Init
  /\ delayConfig.min = 1

SpecLive == InitLive /\ [][Next]_vars /\ Fairness

\* ------------------------------------------------- the command-line program
\* mutant: the --dry-run flag is not looked at
isDryRun_Ignored == FALSE

\* const isDryRun = args.includes('--dry-run')
isDryRun == args.dryRun

\* process.exit(code)
Exited(code) == [main EXCEPT !.pc = "exited", !.exitCode = code]

\* the command line before main() runs; main's locals are not assigned yet
InitCLI ==
  /\ args \in ArgLists
  /\ main = [pc |-> "main", exitCode |-> NotExited, client |-> "none",
             readyTimeout |-> "unset", destroyCalls |-> 0, batches |-> 0,
             second |-> NoSecond]
  /\ NewClient
  /\ contacts = <<>>
  /\ contactsIsArray = FALSE
  /\ messageTemplate = <<>>
  /\ options = [validateNumbers |-> FALSE, personalize |-> FALSE]
  /\ delayConfig = NoDelayConfig
  /\ NotStarted
  /\ fnCall = NoCall

\* main(): the locals options, messageTemplate, contacts and delayConfig are
\* assigned as far as the run gets; messageFile, contactsFile and appDelay
\* are what the files and the environment hold
Main ==
  /\ main.pc = "main"
  /\ \E messageFile \in MessageFiles, contactsFile \in ContactsFiles,
        appDelay \in DelayConfigs, initializeRaises \in BOOLEAN :
       LET read == args.enough /\ messageFile.readable
           isArray == contactsFile.kind = "array"
           loaded == /\ read
                     /\ contactsFile.kind # "null"
                     /\ ~(isArray /\ Len(contactsFile.list) = 0)
           contactsValid == /\ loaded
                            /\ isArray
                            /\ validateContacts(contactsFile.list).valid
           templateValid == /\ contactsValid
                            /\ validateMessageTemplate(messageFile.text).valid
       IN  /\ options' = IF args.enough
                         THEN [validateNumbers |-> args.validate,
                               personalize |-> TRUE]
                         ELSE options
           /\ messageTemplate' = IF read THEN messageFile.text
                                 ELSE messageTemplate
           /\ contacts' = IF read THEN contactsFile.list ELSE contacts
           /\ contactsIsArray' = IF read THEN isArray ELSE contactsIsArray
           /\ delayConfig' = IF templateValid
                             THEN IF args.noDelay THEN NoDelayConfig
                                                  ELSE appDelay
                             ELSE delayConfig
           /\ main' = IF ~templateValid THEN Exited(1)
                      ELSE IF isDryRun THEN Exited(0)
                      ELSE IF initializeRaises
                      THEN [Exited(1) EXCEPT !.client = "created",
                                             !.readyTimeout = "cleared"]
                      ELSE [main EXCEPT !.pc = "waiting",
                                        !.client = "initialized",
                                        !.readyTimeout = "armed"]
  /\ UNCHANGED <<args, factory, fnCall, pc, exit, i, consecutiveFailures, results, regCalls,
                 sendCalls, delayCalls, sendTarget, regOutcome, waits>>

\* the ready timer fires
ReadyTimeout ==
  /\ ProcessAlive
  /\ main.readyTimeout = "armed"
  /\ main' = Exited(1)
  /\ UNCHANGED <<args, factory, fnCall, inputs, pc, exit, i, consecutiveFailures, results,
                 regCalls, sendCalls, delayCalls, sendTarget, regOutcome, waits>>

\* client.on('auth_failure'): emitted while the client authenticates, before
\* it is ready
AuthFailure ==
  /\ main.pc = "waiting"
  /\ main' = [Exited(1) EXCEPT !.readyTimeout = "cleared"]
  /\ UNCHANGED <<args, factory, fnCall, inputs, pc, exit, i, consecutiveFailures, results,
                 regCalls, sendCalls, delayCalls, sendTarget, regOutcome, waits>>

\* mutant: the 'ready' handler leaves the timer running
Ready_TimerLeft ==
  /\ main.pc = "waiting"
  /\ Call
  /\ main' = [main EXCEPT !.pc = "sending", !.batches = @ + 1]
  /\ UNCHANGED <<args, factory, fnCall>>

\* client.on('ready'): the timer is cleared and sendBulkMessages is called
\* with main's locals
Ready ==
  /\ main.pc = "waiting"
  /\ Call
  /\ main' = [main EXCEPT !.pc = "sending", !.readyTimeout = "cleared",
                          !.batches = @ + 1]
  /\ UNCHANGED <<args, factory, fnCall>>

\* mutant: an error on the way to client.destroy() ends the process at once
BatchSettles_LeakOnError ==
  /\ main.pc = "sending"
  /\ pc \in {"returned", "threw"}
  /\ \E saveReportRaises \in BOOLEAN :
       main' = IF pc = "threw" \/ saveReportRaises
               THEN Exited(1)
               ELSE [main EXCEPT !.pc = "destroy", !.destroyCalls = @ + 1]
  /\ UNCHANGED <<args, factory, fnCall, inputs, pc, exit, i, consecutiveFailures, results,
                 regCalls, sendCalls, delayCalls, sendTarget, regOutcome, waits>>

\* await sendBulkMessages(...) settles: printSummary, saveReport (which
\* writes a file and may raise) and client.destroy(), or the catch clause
\* and its client.destroy()
BatchSettles ==
  /\ main.pc = "sending"
  /\ pc \in {"returned", "threw"}
  /\ \E saveReportRaises \in BOOLEAN :
       main' = [main EXCEPT
                  !.pc = IF pc = "threw" \/ saveReportRaises
                         THEN "cleanup" ELSE "destroy",
                  !.destroyCalls = @ + 1]
  /\ UNCHANGED <<args, factory, fnCall, inputs, pc, exit, i, consecutiveFailures, results,
                 regCalls, sendCalls, delayCalls, sendTarget, regOutcome, waits>>

\* await client.destroy() in the try block settles: process.exit(0), or the
\* catch clause and its client.destroy()
DestroySettles ==
  /\ main.pc = "destroy"
  /\ \E destroyRaises \in BOOLEAN :
       main' = IF destroyRaises
               THEN [main EXCEPT !.pc = "cleanup", !.destroyCalls = @ + 1]
               ELSE [Exited(0) EXCEPT !.client = "destroyed"]
  /\ UNCHANGED <<args, factory, fnCall, inputs, pc, exit, i, consecutiveFailures, results,
                 regCalls, sendCalls, delayCalls, sendTarget, regOutcome, waits>>

\* await client.destroy() in the catch clause settles either way:
\* process.exit(1)
CleanupSettles ==
  /\ main.pc = "cleanup"
  /\ \E destroyRaises \in BOOLEAN :
       main' = [Exited(1) EXCEPT
                  !.client = IF destroyRaises THEN @ ELSE "destroyed"]
  /\ UNCHANGED <<args, factory, fnCall, inputs, pc, exit, i, consecutiveFailures, results,
                 regCalls, sendCalls, delayCalls, sendTarget, regOutcome, waits>>

\* The handler of a second 'ready' event. client.on('ready', ...) leaves the
\* listener registered, so the event runs it again: a second call of
\* sendBulkMessages with the same locals of main, on the same client, while
\* the first handler is suspended at one of its awaits. Of the second call
\* the record main.second keeps where it is suspended, its loop index and its
\* failure count; its results are built as those of the first call are.

\* where a call of sendBulkMessages with main's locals first stops
Called ==
  IF ~contactValidation.valid /\ LengthRaises
  THEN [pc |-> "threw", exit |-> "none", i |-> 0, results |-> NoResults]
  ELSE IF \/ ~contactValidation.valid
          \/ ~validateMessageTemplate(messageTemplate).valid
          \/ ~validateDelayConfig(delayConfig).valid
  THEN [pc |-> "returned", exit |-> "invalid", i |-> 0, results |-> NoResults]
  ELSE RunLoop(0, [NoResults EXCEPT !.total = Len(contacts)], 0)

\* the second call moves to the stop s with the failure count failures
SecondMoveTo(s, failures) ==
  main' = [main EXCEPT !.second.pc = s.pc, !.second.i = s.i,
                       !.second.consecutiveFailures = failures]

\* client.on('ready') a second time: clearTimeout on the cleared timer, and
\* sendBulkMessages is called again
ReadyAgain ==
  /\ main.pc \in {"sending", "destroy", "cleanup"}
  /\ main.second.pc = "none"
  /\ main' = [main EXCEPT !.readyTimeout = "cleared",
                          !.batches = @ + 1,
                          !.second.pc = Called.pc,
                          !.second.i = Called.i]
  /\ UNCHANGED <<args, factory, fnCall, inputs, pc, exit, i, consecutiveFailures, results,
                 regCalls, sendCalls, delayCalls, sendTarget, regOutcome, waits>>

\* the second call's await client.isRegisteredUser(chatId) settles: not
\* registered skips the recipient, registered or an error goes on to
\* sendMessage
SecondRegisteredSettles ==
  /\ ProcessAlive
  /\ main.second.pc = "isRegisteredUser"
  /\ \E outcome \in {"true", "false", "threw"} :
       IF outcome = "false"
       THEN SecondMoveTo(RunLoop(main.second.i + 1, NoResults,
                                 main.second.consecutiveFailures),
                         main.second.consecutiveFailures)
       ELSE SecondMoveTo([pc |-> "sendMessage", i |-> main.second.i],
                         main.second.consecutiveFailures)
  /\ UNCHANGED <<args, factory, fnCall, inputs, pc, exit, i, consecutiveFailures, results,
                 regCalls, sendCalls, delayCalls, sendTarget, regOutcome, waits>>

\* the second call's await client.sendMessage(chatId, personalizedMsg)
\* settles: the failure count is reset or incremented, then a wait or the
\* rest of the loop
SecondSendSettles ==
  /\ ProcessAlive
  /\ main.second.pc = "sendMessage"
  /\ \E resolves \in BOOLEAN :
       LET failures == IF resolves THEN 0
                       ELSE main.second.consecutiveFailures + 1
       IN  IF ShouldWait(main.second.i)
           THEN SecondMoveTo([pc |-> "delay", i |-> main.second.i], failures)
           ELSE SecondMoveTo(RunLoop(main.second.i + 1, NoResults, failures),
                             failures)
  /\ UNCHANGED <<args, factory, fnCall, inputs, pc, exit, i, consecutiveFailures, results,
                 regCalls, sendCalls, delayCalls, sendTarget, regOutcome, waits>>

\* the second call's await delay(...) resolves: next iteration
SecondDelayElapses ==
  /\ ProcessAlive
  /\ main.second.pc = "delay"
  /\ SecondMoveTo(RunLoop(main.second.i + 1, NoResults,
                          main.second.consecutiveFailures),
                  main.second.consecutiveFailures)
  /\ UNCHANGED <<args, factory, fnCall, inputs, pc, exit, i, consecutiveFailures, results,
                 regCalls, sendCalls, delayCalls, sendTarget, regOutcome, waits>>

\* the second handler's await sendBulkMessages(...) settles
SecondBatchSettles ==
  /\ ProcessAlive
  /\ main.second.pc \in {"returned", "threw"}
  /\ \E saveReportRaises \in BOOLEAN :
       main' = [main EXCEPT
                  !.second.pc = IF main.second.pc = "threw" \/ saveReportRaises
                                THEN "cleanup" ELSE "destroy",
                  !.second.destroyCalls = @ + 1]
  /\ UNCHANGED <<args, factory, fnCall, inputs, pc, exit, i, consecutiveFailures, results,
                 regCalls, sendCalls, delayCalls, sendTarget, regOutcome, waits>>

\* the second handler's await client.destroy() in the try block settles
SecondDestroySettles ==
  /\ ProcessAlive
  /\ main.second.pc = "destroy"
  /\ \E destroyRaises \in BOOLEAN :
       main' = IF destroyRaises
               THEN [main EXCEPT !.second.pc = "cleanup",
                                 !.second.destroyCalls = @ + 1]
               ELSE [Exited(0) EXCEPT !.client = "destroyed",
                                      !.second.pc = "exited"]
  /\ UNCHANGED <<args, factory, fnCall, inputs, pc, exit, i, consecutiveFailures, results,
                 regCalls, sendCalls, delayCalls, sendTarget, regOutcome, waits>>

\* the second handler's await client.destroy() in the catch clause settles
SecondCleanupSettles ==
  /\ ProcessAlive
  /\ main.second.pc = "cleanup"
  /\ \E destroyRaises \in BOOLEAN :
       main' = [Exited(1) EXCEPT
                  !.client = IF destroyRaises THEN @ ELSE "destroyed",
                  !.second.pc = "exited"]
  /\ UNCHANGED <<args, factory, fnCall, inputs, pc, exit, i, consecutiveFailures, results,
                 regCalls, sendCalls, delayCalls, sendTarget, regOutcome, waits>>

NextCLI ==
  \/ Main
  \/ ReadyTimeout
  \/ AuthFailure
  \/ Ready
  \/ ReadyAgain
  \/ SecondRegisteredSettles
  \/ SecondSendSettles
  \/ SecondDelayElapses
  \/ SecondBatchSettles
  \/ SecondDestroySettles
  \/ SecondCleanupSettles
  \/ RegisteredResolves
  \/ RegisteredRejects
  \/ SendResolves
  \/ SendRejects
  \/ DelayElapses
  \/ BatchSettles
  \/ DestroySettles
  \/ CleanupSettles

SpecCLI == InitCLI /\ [][NextCLI]_vars

\* --------------------------------------- functions applied on their own
\* a recipient with or without a name and a phone (a recipient with neither
\* carries only a company)
ContactOf(hasName, name, hasPhone, phone) ==
  CASE hasName /\ hasPhone   -> [name |-> name, phone |-> phone]
    [] hasName /\ ~hasPhone  -> [name |-> name]
    [] ~hasName /\ hasPhone  -> [phone |-> phone]
    [] OTHER                 -> [company |-> <<"X">>]

NameSamples == {Str_AlB, <<" ", "\t">>, <<>>}

PhoneSamples ==
  {<<"0", "5", "0", "-", "1", "2", "3", " ", "4", "5", "6", "7">>,
   <<"+", "9", "7", "2", " ", "(", "5", "0", ")", " ", "1", "2", "3", "-", "4", "5", "6", "7">>,
   <<"1", "2", "3", "4", "5", "6", "7", "8", "9">>,
   <<"1", "2", "3", "4", "5", "6", "7", "8">>,
   <<"1", "2", "3", "4", "5", "6", "7", "8", "9", "0", "1", "2", "3", "4", "5">>,
   <<"1", "2", "3", "4", "5", "6", "7", "8", "9", "0", "1", "2", "3", "4", "5", "6">>,
   <<"+", "1", "2", "3", "4", "5", "6", "7", "8">>,
   <<"+", "1", "2", "3", "4", "5", "6", "7", "8", "9">>,
   <<"9", "7", "2", "+", "5", "0", "1", "2", "3", "4", "5", "6", "7">>,
   <<"0", "5", "0", "1", "2", "3", "4", "5", "a", "7">>,
   <<"0", "5", "0", "1", "2", "3", "4", "5", "6", "7", ".">>,
   <<" ">>,
   <<"-">>,
   <<"+", "+", "1", "2", "3", "4", "5", "6", "7", "8", "9">>,
   <<"\t", "0", "5", "0", "1", "2", "3", "4", "5", "6", "7", "\n">>,
   <<>>}

ContactSamples ==
  {ContactOf(hasName, name, hasPhone, phone) :
     hasName \in BOOLEAN, name \in NameSamples,
     hasPhone \in BOOLEAN, phone \in PhoneSamples}

\* the applications of validateContact
ValidateContactCalls ==
  {[fn |-> "validateContact", contact |-> c, index |-> k, done |-> FALSE] :
     c \in ContactSamples, k \in 0..1}

\* phones of recipients given to validateContacts: two spellings of one
\* number, two of another, two without a digit
ListPhones ==
  {<<"9", "7", "2", "-", "5", "0", "-", "1", "2", "3", "4", "5", "6", "7">>,
   <<"9", "7", "2", "5", " ", "0", "1", "2", "3", "4", "5", "6", "7">>,
   <<"0", "5", "0", "1", "2", "3", "4", "5", "6", "7">>,
   <<"(", "0", "5", "0", ")", " ", "1", "2", "3", "-", "4", "5", "6", "7">>,
   <<"-">>,
   <<" ">>}

\* recipients for the lists: one per phone, one with an empty phone, one
\* without a phone
ListContacts ==
  {ContactOf(TRUE, Str_AlB, TRUE, phone) : phone \in ListPhones \cup {<<>>}}
  \cup {ContactOf(TRUE, Str_AlB, FALSE, <<>>)}

\* the applications of validateContacts to a list of len recipients
ValidateContactsCalls(len) ==
  {[fn |-> "validateContacts", contacts |-> list, done |-> FALSE] :
     list \in [1..len -> ListContacts]}

\* the string of len characters ch
Repeat(ch, len) == [k \in 1..len |-> ch]

\* templates at and around the length limit: letters only, and letters
\* followed or surrounded by blanks
LongTemplates ==
  {Repeat("a", MAX_TEMPLATE_LENGTH),
   Repeat("a", MAX_TEMPLATE_LENGTH + 1),
   Repeat("a", MAX_TEMPLATE_LENGTH - 1) \o <<" ", " ">>,
   <<" ">> \o Repeat("a", MAX_TEMPLATE_LENGTH) \o <<"\n">>,
   <<" ">> \o Repeat("a", MAX_TEMPLATE_LENGTH + 1),
   <<"{", "f", "o", "o", "}">> \o Repeat("a", MAX_TEMPLATE_LENGTH)}

ShortTemplates ==
  {<<>>, <<" ">>, <<"\t", "\n">>, <<"H", "i">>, Str_Hi_name,
   Str_Hi_unknownField,
   <<"{", "n", "a", "m", "e", "}", " ", "{", "f", "i", "r", "s", "t", "N", "a", "m", "e", "}", " ", "{", "l", "a", "s", "t", "N", "a", "m", "e", "}", " ", "{", "c", "o", "m", "p", "a", "n", "y", "}", " ", "{", "c", "u", "s", "t", "o", "m", "F", "i", "e", "l", "d", "}">>,
   <<"{", "f", "o", "o", "}", " ", "{", "n", "a", "m", "e", "}", " ", "{", "f", "o", "o", "}", " ", "{", "b", "a", "r", "_", "1", "}">>,
   <<"{", "{", "f", "o", "o", "}", "}", " ", "{", "}">>,
   <<"{", "f", "i", "r", "s", "t", " ", "n", "a", "m", "e", "}", " ", "{", "n", "a", "m", "e">>,
   <<"{", "N", "a", "m", "e", "}", "{", "x", "}", "{", "n", "a", "m", "e", "}">>,
   <<"{", "a", "}", "{", "b", "}", "{", "c", "}", "{", "d", "}">>,
   <<"a", " ", "{", "f", "o", "o", "}", "}", " ", "{", "9", "}", " ", "}", "{", " ", "{", "-", "}">>}

\* the applications of validateMessageTemplate
ValidateMessageTemplateCalls ==
  {[fn |-> "validateMessageTemplate", template |-> t, done |-> FALSE] :
     t \in LongTemplates \cup ShortTemplates}

\* the applications of validateDelayConfig: every bound from -1 to MaxDelay
ValidateDelayConfigCalls ==
  {[fn |-> "validateDelayConfig",
    config |-> [min |-> a, max |-> b, personalized |-> [min |-> c, max |-> d]],
    done |-> FALSE] :
     a \in (-1)..MaxDelay, b \in (-1)..MaxDelay,
     c \in (-1)..MaxDelay, d \in (-1)..MaxDelay}

\* recipients given to personalizeMessage: names of one, two and three
\* words, with a doubled, a leading and a tab separator, and names holding
\* a token or a '$'; the optional fields absent, empty or set
PersonalNames ==
  {<<"A", "l", " ", "B">>,
   <<"A", "l", " ", " ", "B">>,
   <<" ", "A", "l", " ", "B">>,
   <<"A", "l", "\t", "B">>,
   <<"A", "l", " ", "B", " ", "C">>,
   <<"A", "l">>,
   <<"{", "c", "o", "m", "p", "a", "n", "y", "}">>,
   <<"a", "$", "&", "b">>,
   <<"a", "$", "$", "b">>}

PersonalFields ==
  [name : PersonalNames,
   phone : {GoodContact(1).phone},
   firstName : {<<>>,
                <<"F">>},
   lastName : {<<>>,
               <<"L">>,
               <<"{", "c", "o", "m", "p", "a", "n", "y", "}">>},
   company : {<<"A", "C", "M", "E">>,
              <<"{", "n", "a", "m", "e", "}">>},
   customField : {<<"X">>}]

PersonalContacts ==
  {[f \in {"name", "phone"} \cup optional |-> full[f]] :
     full \in PersonalFields,
     optional \in SUBSET {"firstName", "lastName", "company", "customField"}}

PersonalTemplates ==
  {<<"H", "i", " ", "{", "n", "a", "m", "e", "}">>,
   <<"{", "f", "i", "r", "s", "t", "N", "a", "m", "e", "}", "|", "{", "l", "a", "s", "t", "N", "a", "m", "e", "}">>,
   <<"{", "n", "a", "m", "e", "}", " ", "{", "n", "a", "m", "e", "}", " ", "{", "c", "o", "m", "p", "a", "n", "y", "}", "{", "c", "u", "s", "t", "o", "m", "F", "i", "e", "l", "d", "}">>,
   <<"p", "l", "a", "i", "n", " ", "t", "e", "x", "t">>,
   <<"{", "l", "a", "s", "t", "N", "a", "m", "e", "}", " ", "{", "f", "i", "r", "s", "t", "N", "a", "m", "e", "}", " ", "{", "n", "a", "m", "e", "}">>}

\* the applications of personalizeMessage
PersonalizeMessageCalls ==
  {[fn |-> "personalizeMessage", template |-> t, contact |-> c,
    done |-> FALSE] : t \in PersonalTemplates, c \in PersonalContacts}

\* the applications of the personalizeMessage of bulkSender.js, to the same
\* templates and recipients
LegacyPersonalizeMessageCalls ==
  {[fn |-> "legacyPersonalizeMessage", template |-> t, contact |-> c,
    done |-> FALSE] : t \in PersonalTemplates, c \in PersonalContacts}

\* Math.random() applied alone is drawn from {0/G, 1/G, .. (G-1)/G}, fine
\* enough to tell the integers of the widest interval apart
RandomGrid == MaxInterval + 1

\* the applications of getRandomDelay: every interval within 0..MaxInterval
\* and every value of the random source
GetRandomDelayCalls ==
  {[fn |-> "getRandomDelay", min |-> a, max |-> b, random |-> r,
    done |-> FALSE] :
     a \in 0..MaxInterval, b \in 0..MaxInterval, r \in 0..(RandomGrid - 1)}

FunctionCalls ==
  ValidateContactCalls
    \cup ValidateMessageTemplateCalls \cup ValidateDelayConfigCalls
    \cup PersonalizeMessageCalls \cup GetRandomDelayCalls
    \cup LegacyPersonalizeMessageCalls

\* one function is about to be applied; no batch, no command line
InitFunctions ==
  /\ \/ fnCall \in FunctionCalls
     \/ \E len \in 0..MaxListLen : fnCall \in ValidateContactsCalls(len)
  /\ contacts = <<>>
  /\ contactsIsArray = TRUE
  /\ messageTemplate = <<>>
  /\ options = [validateNumbers |-> FALSE, personalize |-> FALSE]
  /\ delayConfig = NoDelayConfig
  /\ NotStarted
  /\ args = [enough |-> FALSE, dryRun |-> FALSE, validate |-> FALSE,
             noDelay |-> FALSE]
  /\ main = [pc |-> "none", exitCode |-> NotExited, client |-> "none",
             readyTimeout |-> "unset", destroyCalls |-> 0, batches |-> 0,
             second |-> NoSecond]
  /\ NewClient

\* the function returns out
Return(out) ==
  /\ fnCall' = [fn |-> fnCall.fn, done |-> TRUE, out |-> out] @@ fnCall
  /\ UNCHANGED <<inputs, caller, pc, exit, i, consecutiveFailures, results,
                 regCalls, sendCalls, delayCalls, sendTarget, regOutcome, waits>>

ApplyValidateContact ==
  /\ fnCall.fn = "validateContact"
  /\ ~fnCall.done
  /\ Return(validateContact(fnCall.contact, fnCall.index))

ApplyValidateContacts ==
  /\ fnCall.fn = "validateContacts"
  /\ ~fnCall.done
  /\ Return(validateContacts(fnCall.contacts))

ApplyValidateMessageTemplate ==
  /\ fnCall.fn = "validateMessageTemplate"
  /\ ~fnCall.done
  /\ Return(validateMessageTemplate(fnCall.template))

ApplyValidateDelayConfig ==
  /\ fnCall.fn = "validateDelayConfig"
  /\ ~fnCall.done
  /\ Return(validateDelayConfig(fnCall.config))

ApplyPersonalizeMessage ==
  /\ fnCall.fn = "personalizeMessage"
  /\ ~fnCall.done
  /\ Return(personalizeMessage(fnCall.template, fnCall.contact))

ApplyLegacyPersonalizeMessage ==
  /\ fnCall.fn = "legacyPersonalizeMessage"
  /\ ~fnCall.done
  /\ Return(legacyPersonalizeMessage(fnCall.template, fnCall.contact))

ApplyGetRandomDelay ==
  /\ fnCall.fn = "getRandomDelay"
  /\ ~fnCall.done
  /\ Return(getRandomDelayAt(fnCall.min, fnCall.max, fnCall.random, RandomGrid))

NextFunctions ==
  \/ ApplyGetRandomDelay
  \/ ApplyPersonalizeMessage
  \/ ApplyLegacyPersonalizeMessage
  \/ ApplyValidateDelayConfig
  \/ ApplyValidateContact
  \/ ApplyValidateContacts
  \/ ApplyValidateMessageTemplate

SpecFunctions == InitFunctions /\ [][NextFunctions]_vars

\* ------------------------------------------------------ the client factory
\* createClient has returned a client; nothing else runs. Its 'auth_failure',
\* 'disconnected' and 'change_state' listeners only write to the console.
InitClient ==
  /\ contacts = <<>>
  /\ contactsIsArray = TRUE
  /\ messageTemplate = <<>>
  /\ options = [validateNumbers |-> FALSE, personalize |-> FALSE]
  /\ delayConfig = NoDelayConfig
  /\ NotStarted
  /\ NoProcess

\* client.on('qr'): the counter is incremented, and the code is rendered
\* unless the counter has passed MAX_QR_ATTEMPTS
Qr ==
  /\ qrHistory.qr < MaxQrEvents
  /\ qrAttempts' = qrAttempts + 1
  /\ LET givenUp == qrAttempts' > MAX_QR_ATTEMPTS
     IN  qrHistory' = [qrHistory EXCEPT
                         !.qr = @ + 1,
                         !.since = @ + 1,
                         !.shown = IF givenUp THEN @ ELSE @ + 1,
                         !.rendered = ~givenUp]
  /\ UNCHANGED <<inputs, args, main, fnCall, pc, exit, i, consecutiveFailures,
                 results, regCalls, sendCalls, delayCalls, sendTarget,
                 regOutcome, waits>>

\* mutant: 'authenticated' leaves the counter as it is
Authenticated_NoReset ==
  /\ qrHistory.authenticated < MaxAuthenticated
  /\ qrAttempts' = qrAttempts
  /\ qrHistory' = [qrHistory EXCEPT !.authenticated = @ + 1,
                                    !.since = 0, !.shown = 0]
  /\ UNCHANGED <<inputs, args, main, fnCall, pc, exit, i, consecutiveFailures,
                 results, regCalls, sendCalls, delayCalls, sendTarget,
                 regOutcome, waits>>

\* client.on('authenticated'): qrAttempts = 0
Authenticated ==
  /\ qrHistory.authenticated < MaxAuthenticated
  /\ qrAttempts' = 0
  /\ qrHistory' = [qrHistory EXCEPT !.authenticated = @ + 1,
                                    !.since = 0, !.shown = 0]
  /\ UNCHANGED <<inputs, args, main, fnCall, pc, exit, i, consecutiveFailures,
                 results, regCalls, sendCalls, delayCalls, sendTarget,
                 regOutcome, waits>>

NextClient ==
  \/ Qr
  \/ Authenticated

SpecClient == InitClient /\ [][NextClient]_vars

\* ================================================================ claims
n == Len(contacts)
details == results.details
InputsValid ==
  /\ validateContacts(contacts).valid
  /\ validateMessageTemplate(messageTemplate).valid
  /\ validateDelayConfig(delayConfig).valid
HasReason(d, reason) == "reason" \in DOMAIN d /\ d.reason = reason
AbortReason == "Aborted due to consecutive failures"
\* the duration of the most recent delay() call
CurrentWait == waits[Len(waits)]
\* 'failed' outcomes recorded after the most recent 'sent' outcome
FailedSinceLastSent(d) ==
  Cardinality({k \in 1..Len(d) :
                 /\ d[k].status = "failed"
                 /\ \A m \in (k + 1)..Len(d) : d[m].status # "sent"})

\* C1: when the recipients, the template or the delay configuration fail
\* validation, the call returns at once without any isRegisteredUser or
\* sendMessage call, and its result marks every input recipient skipped with
\* sent = 0, failed = 0 and skipped = total = number of recipients.
C1_ValidationFailureSkipsAll ==
  (pc # "start" /\ ~InputsValid) =>
    /\ pc = "returned"
    /\ regCalls = 0
    /\ sendCalls = 0
    /\ results.sent = 0
    /\ results.failed = 0
    /\ results.skipped = n
    /\ results.total = n
    /\ Len(details) = n
    /\ \A k \in 1..n : details[k].status = "skipped" /\ details[k].contact = contacts[k]

C1_Witness ==
  /\ pc = "returned"
  /\ n >= 2
  /\ validateContacts(contacts).valid
  /\ validateMessageTemplate(messageTemplate).valid
  /\ ~validateDelayConfig(delayConfig).valid
  /\ results.skipped = n

\* C2: once the consecutive-failure count is 5 or more no transport call is
\* outstanding, and the next step of the batch is its return: it makes no
\* sendMessage call, no isRegisteredUser call and no timed wait, and it marks
\* the recipient the loop had reached and every later one skipped with the
\* abort reason.
C2_AbortSkipsRest ==
  [][/\ consecutiveFailures' >= 5 => pc' \in {"delay", "returned"}
     /\ (consecutiveFailures >= 5 /\ pc # "returned") =>
          /\ pc' = "returned"
          /\ sendCalls' = sendCalls
          /\ regCalls' = regCalls
          /\ delayCalls' = delayCalls
          /\ Len(results'.details) = n
          /\ \A k \in (i + 2)..n :
               /\ results'.details[k].status = "skipped"
               /\ HasReason(results'.details[k], AbortReason)
               /\ results'.details[k].contact = contacts[k]]_vars

C2_Witness ==
  /\ pc = "returned"
  /\ consecutiveFailures >= 5
  /\ n = i + 1
  /\ results.failed = 5
  /\ HasReason(details[n], AbortReason)

\* C3: the consecutive-failure count always equals the number of 'failed'
\* outcomes recorded after the most recent 'sent' outcome (since the start if
\* none was sent): a success resets it, a failure adds one, a skip leaves it.
C3_FailureCountMatchesOutcomes ==
  consecutiveFailures = FailedSinceLastSent(details)

C3_Witness ==
  /\ pc = "delay"
  /\ consecutiveFailures = 2
  /\ \E k \in 1..(Len(details) - 3) :
       /\ details[k].status = "sent"
       /\ details[k + 1].status = "failed"
       /\ details[k + 2].status = "skipped"
       /\ details[k + 3].status = "failed"

\* C4: no transport error leaves sendBulkMessages: the function never ends by
\* throwing, every settled sendMessage call appends a 'sent' or 'failed'
\* outcome for its recipient, and after the outcome the loop goes on (to the
\* wait and then to the next index, or to the return after the last one).
C4_TransportErrorsContained ==
  [][/\ pc' # "threw"
     /\ pc = "sendMessage" =>
          /\ Len(results'.details) >= i + 1
          /\ results'.details[i + 1].status \in {"sent", "failed"}
          /\ results'.details[i + 1].contact = contacts[i + 1]
          /\ IF i < n - 1 THEN pc' = "delay" /\ i' = i
                          ELSE pc' = "returned"
     /\ pc = "delay" => (i' = i + 1 /\ pc' # "delay")]_vars

C4_Witness ==
  /\ pc = "sendMessage"
  /\ i >= 1
  /\ details[i].status = "failed"
  /\ regOutcome = [index |-> i, result |-> "threw"]

\* C5: when isRegisteredUser raises for a recipient, sendMessage is called
\* for that same recipient and the recipient's outcome is the send's: 'sent'
\* or 'failed', never 'skipped'.
C5_RegistrationErrorStillSends ==
  regOutcome.result = "threw" =>
    /\ sendTarget.index = regOutcome.index
    /\ sendTarget.chatId = ChatId(contacts[regOutcome.index + 1])
    /\ \/ pc = "sendMessage" /\ i = regOutcome.index
          /\ Len(details) = regOutcome.index
       \/ /\ Len(details) >= regOutcome.index + 1
          /\ details[regOutcome.index + 1].status \in {"sent", "failed"}

C5_Witness ==
  /\ regOutcome.result = "threw"
  /\ Len(details) >= regOutcome.index + 1
  /\ details[regOutcome.index + 1].status = "sent"
  /\ consecutiveFailures = 0

\* C6: when isRegisteredUser returns false for a recipient, the recipient is
\* skipped as 'Not registered', no sendMessage call is made for it and the
\* loop has moved past it; with the check disabled isRegisteredUser is never
\* called.
C6_NotRegisteredIsSkipped ==
  /\ ~options.validateNumbers => regCalls = 0
  /\ regOutcome.result = "false" =>
       /\ Len(details) >= regOutcome.index + 1
       /\ details[regOutcome.index + 1].status = "skipped"
       /\ HasReason(details[regOutcome.index + 1], "Not registered")
       /\ sendTarget.index # regOutcome.index
       /\ i > regOutcome.index

C6_Witness ==
  /\ regOutcome.result = "false"
  /\ pc = "isRegisteredUser"
  /\ i = regOutcome.index + 1
  /\ sendCalls >= 1

\* C7: a timed wait follows recipient i exactly when its outcome is 'sent' or
\* 'failed' and it is not the last one: the function is in a wait only right
\* after such an outcome, and the number of waits is the number of such
\* outcomes.
C7_WaitIffSendOutcomeNotLast ==
  /\ pc = "delay" =>
       /\ Len(details) = i + 1
       /\ details[i + 1].status \in {"sent", "failed"}
       /\ i < n - 1
  /\ delayCalls =
       Cardinality({k \in 1..Len(details) :
                      details[k].status \in {"sent", "failed"} /\ k < n})

C7_Witness ==
  /\ pc = "returned"
  /\ exit = "completed"
  /\ n = 4
  /\ details[1].status = "sent"
  /\ details[2].status = "skipped"
  /\ details[3].status = "failed"
  /\ details[4].status = "sent"
  /\ delayCalls = 2

\* C8: whenever a sendMessage call is made after an earlier one, exactly one
\* timed wait was made since that earlier call, and it lasted at least
\* delayConfig.min.
C8_SendsAreSpaced ==
  [][(sendCalls' = sendCalls + 1 /\ sendCalls >= 1) =>
       /\ Len(waits) = 1
       /\ waits[1] >= delayConfig.min]_vars

C8_Witness ==
  /\ pc = "sendMessage"
  /\ sendCalls = 3
  /\ delayCalls = 2
  /\ Len(details) = 3
  /\ details[2].status = "skipped"

\* C9: the wait after a successful send lies in [min + personalized.min,
\* max + personalized.max] when options.personalize is set and in [min, max]
\* when it is not.
C9_SuccessDelayRange ==
  (pc = "delay" /\ details[i + 1].status = "sent") =>
    IF options.personalize
    THEN CurrentWait \in
           (delayConfig.min + delayConfig.personalized.min)
             ..(delayConfig.max + delayConfig.personalized.max)
    ELSE CurrentWait \in delayConfig.min..delayConfig.max

C9_Witness ==
  /\ pc = "delay"
  /\ details[i + 1].status = "sent"
  /\ options.personalize
  /\ delayConfig.personalized.max > 0
  /\ CurrentWait = delayConfig.max + delayConfig.personalized.max

CountStatus(d, status) ==
  Cardinality({k \in 1..Len(d) : d[k].status = status})
\* some recipient carries the abort reason
AbortMarked == \E k \in 1..Len(details) : HasReason(details[k], AbortReason)
\* the batch was started (its input passed validation) and has returned
BatchEnded == pc = "returned" /\ exit # "invalid"

\* C11: a valid batch of n >= 5 recipients, registration check disabled, in
\* which every sendMessage call failed returns with its first 5 outcomes
\* 'failed', the other n - 5 'skipped' with the abort reason, total = n,
\* sent = 0, after exactly 5 sendMessage calls.
C11_AllFailingBatch ==
  (/\ pc = "returned"
   /\ ~options.validateNumbers
   /\ n >= 5
   /\ results.sent = 0
   /\ InputsValid) =>
    /\ Len(details) = n
    /\ \A k \in 1..5 : details[k].status = "failed"
    /\ \A k \in 6..n : details[k].status = "skipped"
                         /\ HasReason(details[k], AbortReason)
    /\ results.total = n
    /\ results.failed = 5
    /\ results.skipped = n - 5
    /\ sendCalls = 5

C11_Witness ==
  /\ pc = "returned"
  /\ ~options.validateNumbers
  /\ n = 6
  /\ results.sent = 0
  /\ results.failed = 5
  /\ InputsValid

\* C12 as claimed: a batch that ends Completed kept its consecutive-failure
\* count below 5 throughout, so it returns with a count below 5.
C12_CompletedMeansBelowThreshold ==
  (BatchEnded /\ ~AbortMarked) => consecutiveFailures < 5

\* C12 as amended: a started batch returns Aborted exactly when the count
\* reached 5 at a recipient that is not the last one; it returns Completed
\* with the count below 5, or with the count at exactly 5 when the fifth
\* consecutive failure is the last recipient's.
C12_AbortUnlessFifthFailureIsLast ==
  BatchEnded =>
    /\ Len(details) = n
    /\ consecutiveFailures <= 5
    /\ AbortMarked <=> (consecutiveFailures = 5 /\ details[n].status # "failed")
    /\ AbortMarked <=> exit = "aborted"

C12_Witness ==
  /\ BatchEnded
  /\ exit = "completed"
  /\ consecutiveFailures = 5
  /\ n = 6
  /\ details[1].status = "sent"
  /\ details[n].status = "failed"

\* C13: in a started batch a recipient carries the abort reason only if 5
\* 'failed' outcomes with no 'sent' after them were recorded before it, and
\* when no recipient carries it every recipient has been processed on its
\* own: 'sent', 'failed' or skipped as 'Not registered'.
C13_OnlyThresholdStopsBatch ==
  exit # "invalid" =>
    /\ \A k \in 1..Len(details) :
         \/ details[k].status \in {"sent", "failed"}
         \/ HasReason(details[k], "Not registered")
         \/ /\ HasReason(details[k], AbortReason)
            /\ FailedSinceLastSent(SubSeq(details, 1, k - 1)) >= 5
    /\ (pc = "returned" /\ ~AbortMarked) => Len(details) = n

C13_Witness ==
  /\ BatchEnded
  /\ n = 6
  /\ results.failed = 5
  /\ details[3].status = "sent"
  /\ ~AbortMarked

\* C14: sent + failed + skipped is always the length of details and each
\* counter is the number of entries with its status; a returned batch has one
\* entry per input recipient, in input order, and its counters add up to
\* total.
C14_CountersMatchDetails ==
  /\ results.sent = CountStatus(details, "sent")
  /\ results.failed = CountStatus(details, "failed")
  /\ results.skipped = CountStatus(details, "skipped")
  /\ results.sent + results.failed + results.skipped = Len(details)
  /\ \A k \in 1..Len(details) : details[k].contact = contacts[k]
  /\ pc = "returned" =>
       /\ Len(details) = n
       /\ results.total = n
       /\ results.sent + results.failed + results.skipped = results.total

C14_Witness ==
  /\ pc = "returned"
  /\ n = 6
  /\ results.sent = 2
  /\ results.failed = 2
  /\ results.skipped = 2

\* C16 as claimed: a throwing isRegisteredUser call increments the
\* consecutive-failure count.
C16_RegistrationErrorCounts ==
  [][(regOutcome' # regOutcome /\ regOutcome'.result = "threw") =>
       consecutiveFailures' = consecutiveFailures + 1]_vars

\* C16 as amended: a failing sendMessage call increments the count by one; a
\* throwing isRegisteredUser call leaves it as it is.
C16_OnlySendErrorsCount ==
  [][/\ (regOutcome' # regOutcome /\ regOutcome'.result = "threw") =>
          consecutiveFailures' = consecutiveFailures
     /\ (pc = "sendMessage" /\ results'.failed = results.failed + 1) =>
          consecutiveFailures' = consecutiveFailures + 1]_vars

C16_Witness ==
  /\ pc = "delay"
  /\ regOutcome = [index |-> i, result |-> "threw"]
  /\ details[i + 1].status = "failed"
  /\ consecutiveFailures = 1
  /\ results.failed = 1

\* C18: once every outcome is a failure, at most 5 more sendMessage calls are
\* made: after any point of details from which no entry is 'sent' or skipped
\* as 'Not registered', at most 5 entries are 'failed' (counting a call still
\* outstanding), and the entries after the fifth carry the abort reason.
C18_AtMostFiveCallsOnceUnusable ==
  \A p \in 0..Len(details) :
    (\A k \in (p + 1)..Len(details) :
        details[k].status = "failed" \/ HasReason(details[k], AbortReason)) =>
      LET failedAfter ==
            Cardinality({k \in (p + 1)..Len(details) : details[k].status = "failed"})
          outstanding == IF pc = "sendMessage" THEN 1 ELSE 0
      IN  /\ failedAfter + outstanding <= 5
          /\ sendCalls = results.sent + results.failed + outstanding
          /\ (pc = "returned" /\ failedAfter = 5) =>
               \A k \in (p + 6)..n : HasReason(details[k], AbortReason)

C18_Witness ==
  /\ pc = "returned"
  /\ n = 6
  /\ options.validateNumbers
  /\ regOutcome.result = "threw"
  /\ results.failed = 5
  /\ HasReason(details[6], AbortReason)
  /\ sendCalls = 5

\* C15: processing is sequential: a step of the batch makes at most one
\* transport call or timed wait and suspends on it (otherwise it returns), so
\* at most one is outstanding; a call for a recipient is made only once the
\* outcomes of all earlier recipients are recorded, and the index advances
\* only when the wait after an outcome has ended.
C15_StrictlySequential ==
  [][LET made == (regCalls' - regCalls) + (sendCalls' - sendCalls)
                   + (delayCalls' - delayCalls)
     IN  /\ made \in {0, 1}
         /\ (made = 0) <=> (pc' \in {"returned", "threw"})
         /\ regCalls' > regCalls =>
              pc' = "isRegisteredUser" /\ Len(results'.details) = i'
         /\ sendCalls' > sendCalls =>
              /\ pc' = "sendMessage"
              /\ Len(results'.details) = i'
              /\ sendTarget'.index = i'
         /\ delayCalls' > delayCalls =>
              pc' = "delay" /\ i' = i /\ Len(results'.details) = i + 1
         /\ pc = "delay" => (i' = i + 1 /\ delayCalls' = delayCalls)
         /\ i' >= i]_vars

C15_Witness ==
  /\ pc = "isRegisteredUser"
  /\ i = 2
  /\ delayCalls = 1
  /\ regCalls = 3
  /\ sendCalls = 1
  /\ Len(details) = 2

\* C17 as claimed: whatever the arguments and the transport do,
\* sendBulkMessages never raises.
C17_NeverRaises == pc # "threw"

\* C19: with --dry-run on the command line no client is ever created or
\* initialized and the batch is never started, so no sendMessage and no
\* isRegisteredUser call is made.
C19_DryRunNeverSends ==
  args.dryRun =>
    /\ main.client = "none"
    /\ main.pc \in {"main", "exited"}
    /\ pc = "start"
    /\ sendCalls = 0
    /\ regCalls = 0
    /\ main.destroyCalls = 0

C19_Witness ==
  /\ args.dryRun
  /\ main.pc = "exited"
  /\ main.exitCode = 0
  /\ Len(contacts) = 2

\* C20 as claimed: the process exits with code 0 only if the recipients, the
\* template and the effective delay configuration all pass validation.
C20_ExitZeroOnlyIfAllValid ==
  main.exitCode = 0 =>
    /\ contactsIsArray
    /\ validateContacts(contacts).valid
    /\ validateMessageTemplate(messageTemplate).valid
    /\ validateDelayConfig(delayConfig).valid

\* C21 as claimed: the result a batch with an empty recipient list returns
\* reports valid = false and skipped = 0.
C21_ResultReportsInvalid ==
  (pc = "returned" /\ n = 0) =>
    /\ "valid" \in DOMAIN results
    /\ results.valid = FALSE
    /\ results.skipped = 0

\* C21 (amended): a batch with an empty recipient list fails validateContacts
\* (valid = false) and returns, without raising and without any transport or
\* delay call, the aggregate with total = sent = failed = skipped = 0 and no
\* details; the aggregate itself carries no valid field.
C21_EmptyListReturnsEmptyAggregate ==
  (pc # "start" /\ n = 0) =>
    /\ pc = "returned"
    /\ exit = "invalid"
    /\ ~validateContacts(contacts).valid
    /\ results = NoResults
    /\ DOMAIN results = {"total", "sent", "failed", "skipped", "details"}
    /\ regCalls = 0
    /\ sendCalls = 0
    /\ delayCalls = 0

C21_Witness ==
  /\ pc = "returned"
  /\ n = 0
  /\ validateMessageTemplate(messageTemplate).valid
  /\ validateDelayConfig(delayConfig).valid
  /\ results.skipped = 0

\* the errors of a list that carry the given field
ErrorsOn(errors, field) ==
  Cardinality({k \in 1..Len(errors) : errors[k].field = field})

\* a string holds nothing but blanks (the empty string included)
OnlyBlanks(str) == \A k \in DOMAIN str : str[k] \in {" ", "\t", "\n", "\r"}

\* an optional leading '+' followed by 9 to 15 digits, once whitespace,
\* hyphens and parentheses are taken out
WellFormedPhone(phone) ==
  LET kept == SelectSeq(phone,
                LAMBDA ch : ch \notin {" ", "\t", "\n", "\r", "-", "(", ")"})
      signed == Len(kept) > 0 /\ kept[1] = "+"
      from == IF signed THEN 2 ELSE 1
  IN  /\ Len(kept) - (from - 1) \in PHONE_MIN_DIGITS..PHONE_MAX_DIGITS
      /\ \A k \in from..Len(kept) : kept[k] \in Digits

WithPhone(list) ==
  {k \in 1..Len(list) : "phone" \in DOMAIN list[k] /\ list[k].phone # <<>>}

\* the phone of a recipient with every character that is not a digit removed
DigitsOf(contact) == SelectSeq(contact.phone, LAMBDA ch : ch \in Digits)

\* the groups of two or more recipients whose digits-only phones are equal
DuplicateGroups(list) ==
  {g \in {{m \in WithPhone(list) : DigitsOf(list[m]) = DigitsOf(list[k])} :
            k \in WithPhone(list)} : Cardinality(g) >= 2}

C24_RejectsBlankAndOverlong ==
  (fnCall.fn = "validateMessageTemplate" /\ fnCall.done) =>
    LET t == fnCall.template
    IN  /\ OnlyBlanks(t) => ~fnCall.out.valid
        /\ Len(t) > MAX_TEMPLATE_LENGTH => ~fnCall.out.valid
        /\ (/\ ~OnlyBlanks(t)
            /\ Len(t) <= MAX_TEMPLATE_LENGTH
            /\ \A k \in 1..Len(t) : t[k] # "{") => fnCall.out.valid

\* the fixed placeholder vocabulary
Vocabulary ==
  {<<"n", "a", "m", "e">>,
   <<"f", "i", "r", "s", "t", "N", "a", "m", "e">>,
   <<"l", "a", "s", "t", "N", "a", "m", "e">>,
   <<"c", "o", "m", "p", "a", "n", "y">>,
   <<"c", "u", "s", "t", "o", "m", "F", "i", "e", "l", "d">>}

\* the position of the '}' closing a {word} token that opens at p, 0 if no
\* token opens at p
TokenEnd(t, p) ==
  IF /\ t[p] = "{"
     /\ \E e \in (p + 2)..Len(t) :
          t[e] = "}" /\ \A k \in (p + 1)..(e - 1) : t[k] \in WordChars
  THEN CHOOSE e \in (p + 2)..Len(t) :
         t[e] = "}" /\ \A k \in (p + 1)..(e - 1) : t[k] \in WordChars
  ELSE 0

\* the positions at which a {word} token with a word outside the vocabulary
\* opens
UnknownTokens(t) ==
  {p \in 1..Len(t) :
     /\ TokenEnd(t, p) # 0
     /\ SubSeq(t, p + 1, TokenEnd(t, p) - 1) \notin Vocabulary}

\* C25: for a non-blank template validateMessageTemplate reports one
\* placeholder error per occurrence of a {word} token whose word is outside
\* the vocabulary, each naming its word, next to at most one length error and
\* nothing else; with no such token it reports no placeholder error; and the
\* template is valid exactly when nothing is reported.
C25_OneErrorPerUnknownToken ==
  (/\ fnCall.fn = "validateMessageTemplate"
   /\ fnCall.done
   /\ ~OnlyBlanks(fnCall.template)) =>
    LET t == fnCall.template
        errors == fnCall.out.errors
        unknown == {e \in 1..Len(errors) :
                      errors[e].message = "Unknown placeholder"}
        tooLong == {e \in 1..Len(errors) :
                      errors[e].message = "Message template exceeds maximum length"}
    IN  /\ Cardinality(unknown) = Cardinality(UnknownTokens(t))
        /\ \A w \in {SubSeq(t, p + 1, TokenEnd(t, p) - 1) : p \in UnknownTokens(t)} :
             Cardinality({e \in unknown : errors[e].word = w})
               = Cardinality({p \in UnknownTokens(t) :
                                SubSeq(t, p + 1, TokenEnd(t, p) - 1) = w})
        /\ Cardinality(tooLong) <= 1
        /\ Len(errors) = Cardinality(unknown) + Cardinality(tooLong)
        /\ fnCall.out.valid <=> (errors = <<>>)

C25_Witness ==
  /\ fnCall.fn = "validateMessageTemplate"
  /\ fnCall.done
  /\ Len(fnCall.out.errors) = 3
  /\ fnCall.out.errors[1].word = fnCall.out.errors[2].word
  /\ fnCall.out.errors[3].word # fnCall.out.errors[1].word
  /\ Cardinality(UnknownTokens(fnCall.template)) = 3

\* the six conditions a delay configuration can violate, by the field the
\* error for each is reported on
DelayViolations(config) ==
  (IF config.min < 0 THEN {"delay.min"} ELSE {})
  \cup (IF config.max < 0 THEN {"delay.max"} ELSE {})
  \cup (IF config.min > config.max THEN {"delay"} ELSE {})
  \cup (IF config.personalized.min < 0 THEN {"delay.personalized.min"} ELSE {})
  \cup (IF config.personalized.max < 0 THEN {"delay.personalized.max"} ELSE {})
  \cup (IF config.personalized.min > config.personalized.max
        THEN {"delay.personalized"} ELSE {})

\* C26: validateDelayConfig is invalid if and only if a bound is negative or
\* a minimum exceeds its maximum, and its error list holds exactly one error
\* for each of the six conditions that is violated and no other.
C26_OneErrorPerViolation ==
  (fnCall.fn = "validateDelayConfig" /\ fnCall.done) =>
    LET errors == fnCall.out.errors
        violated == DelayViolations(fnCall.config)
    IN  /\ fnCall.out.valid <=> (violated = {})
        /\ Len(errors) = Cardinality(violated)
        /\ \A f \in violated : ErrorsOn(errors, f) = 1

C26_Witness ==
  /\ fnCall.fn = "validateDelayConfig"
  /\ fnCall.done
  /\ Len(fnCall.out.errors) = 4
  /\ fnCall.config.min > fnCall.config.max
  /\ fnCall.config.personalized.min > fnCall.config.personalized.max

\* the template with every token that opens at or after p replaced, in one
\* pass, by the value given for it
RECURSIVE SubstituteFrom(_, _, _)
SubstituteFrom(t, p, value) ==
  LET here == {tk \in DOMAIN value :
                 /\ p + Len(tk) - 1 <= Len(t)
                 /\ SubSeq(t, p, p + Len(tk) - 1) = tk}
  IN  IF p > Len(t) THEN <<>>
      ELSE IF here # {}
      THEN LET tk == CHOOSE x \in here : TRUE
           IN  value[tk] \o SubstituteFrom(t, p + Len(tk), value)
      ELSE <<t[p]>> \o SubstituteFrom(t, p + 1, value)

\* the value of each of the five tokens, given those of {firstName} and
\* {lastName}
TokenValues(contact, first, last) ==
  [tk \in {Token_name, Token_firstName, Token_lastName, Token_company,
           Token_customField} |->
     CASE tk = Token_name        -> OrEmpty(contact, "name")
       [] tk = Token_firstName   -> first
       [] tk = Token_lastName    -> last
       [] tk = Token_company     -> OrEmpty(contact, "company")
       [] tk = Token_customField -> OrEmpty(contact, "customField")]

\* C27 as claimed: personalizeMessage returns the template with every
\* occurrence of the five tokens replaced by the recipient's field (empty
\* when absent) as one simultaneous substitution: text brought in by a field
\* value is never itself substituted.
C27_SimultaneousSubstitution ==
  (fnCall.fn = "personalizeMessage" /\ fnCall.done) =>
    fnCall.out = SubstituteFrom(fnCall.template, 1,
                   TokenValues(fnCall.contact, firstNameOf(fnCall.contact),
                               lastNameOf(fnCall.contact)))

\* the whitespace-delimited words of a string
RECURSIVE Words(_)
Words(str) ==
  LET blank == {" ", "\t", "\n", "\r"}
      inWord == {k \in 1..Len(str) : str[k] \notin blank}
  IN  IF inWord = {} THEN <<>>
      ELSE LET b == CHOOSE k \in inWord : \A m \in inWord : k <= m
               ends == {k \in b..Len(str) : k = Len(str) \/ str[k + 1] \in blank}
               e == CHOOSE k \in ends : \A m \in ends : k <= m
           IN  <<SubSeq(str, b, e)>> \o Words(SubSeq(str, e + 1, Len(str)))

\* no field of the recipient holds a '{' or a '$'
PlainFields(contact) ==
  \A f \in DOMAIN contact :
    \A k \in 1..Len(contact[f]) : contact[f][k] \notin {"{", "$"}

\* C28 as claimed: with no explicit firstName, {firstName} is replaced by the
\* first whitespace-delimited word of name; with no explicit lastName,
\* {lastName} is replaced by the remaining words joined by single spaces; an
\* explicit field takes precedence.
C28_NameSplitOnWhitespace ==
  (fnCall.fn = "personalizeMessage" /\ fnCall.done /\ PlainFields(fnCall.contact)) =>
    LET c == fnCall.contact
        words == Words(c.name)
        first == IF "firstName" \in DOMAIN c THEN c.firstName
                 ELSE IF words = <<>> THEN <<>> ELSE words[1]
        last == IF "lastName" \in DOMAIN c THEN c.lastName
                ELSE IF words = <<>> THEN <<>> ELSE JoinWithSpace(Tail(words))
    IN  fnCall.out = SubstituteFrom(fnCall.template, 1, TokenValues(c, first, last))

\* C29: for integers 0 <= min <= max, getRandomDelay(min, max) is an integer
\* of the closed interval [min, max] whatever the random source yields, every
\* integer of the interval is the result for some value of the random
\* source, and with min = max the result is that value.
C29_RandomDelayCoversInterval ==
  (fnCall.fn = "getRandomDelay" /\ fnCall.done /\ fnCall.min <= fnCall.max) =>
    /\ fnCall.out \in fnCall.min..fnCall.max
    /\ fnCall.min = fnCall.max => fnCall.out = fnCall.min
    /\ \A v \in fnCall.min..fnCall.max :
         \E r \in 0..(RandomGrid - 1) :
           getRandomDelayAt(fnCall.min, fnCall.max, r, RandomGrid) = v

C29_Witness ==
  /\ fnCall.fn = "getRandomDelay"
  /\ fnCall.done
  /\ fnCall.min = 1
  /\ fnCall.max = MaxInterval
  /\ fnCall.out = fnCall.max

C31_FirstFailingValidatorNamesReason ==
  (pc = "returned" /\ exit = "invalid") =>
    LET reason ==
          IF ~validateContacts(contacts).valid
          THEN "Validation failed before sending"
          ELSE IF ~validateMessageTemplate(messageTemplate).valid
          THEN "Invalid message template"
          ELSE "Invalid delay configuration"
    IN  /\ ~InputsValid
        /\ Len(details) = n
        /\ \A k \in 1..n : HasReason(details[k], reason)

C31_Witness ==
  /\ pc = "returned"
  /\ exit = "invalid"
  /\ n >= 2
  /\ ~validateContacts(contacts).valid
  /\ ~validateMessageTemplate(messageTemplate).valid
  /\ ~validateDelayConfig(delayConfig).valid
  /\ HasReason(details[n], "Validation failed before sending")

\* C32: within one batch each recipient receives at most one sendMessage
\* call and at most one isRegisteredUser call (every call is for a later
\* recipient than the call before it, so a failed send is never retried),
\* and the number of sendMessage calls is sent + failed once the batch has
\* returned (plus the one in flight before).
C32_AtMostOneCallPerRecipient ==
  [][/\ sendCalls' > sendCalls =>
          /\ sendCalls' = sendCalls + 1
          /\ sendTarget'.index = i'
          /\ sendTarget'.index > sendTarget.index
     /\ regCalls' > regCalls =>
          /\ regCalls' = regCalls + 1
          /\ pc' = "isRegisteredUser"
          /\ i' > regOutcome'.index
          /\ i' > sendTarget.index
     /\ sendCalls' <= Len(contacts)
     /\ regCalls' <= Len(contacts)
     /\ sendCalls' = results'.sent + results'.failed
                       + (IF pc' = "sendMessage" THEN 1 ELSE 0)]_vars

C32_Witness ==
  /\ pc = "returned"
  /\ results.sent >= 2
  /\ results.failed >= 2
  /\ sendCalls = results.sent + results.failed
  /\ regCalls = Len(contacts)

\* a destination: 9 to 15 digits followed by '@c.us'
WellFormedDestination(chatId) ==
  LET digits == Len(chatId) - 5
  IN  /\ digits \in PHONE_MIN_DIGITS..PHONE_MAX_DIGITS
      /\ \A k \in 1..digits : chatId[k] \in Digits
      /\ SubSeq(chatId, digits + 1, Len(chatId)) = <<"@", "c", ".", "u", "s">>

\* C33: every sendMessage call goes to the destination built from the digits
\* of its own recipient's phone, 9 to 15 digits followed by '@c.us', and no
\* other recipient of the batch has that destination; each recipient being
\* sent to at most once, no two calls of a batch have the same destination.
C33_DestinationsDistinct ==
  [][sendCalls' > sendCalls =>
       /\ WellFormedDestination(sendTarget'.chatId)
       /\ sendTarget'.index > sendTarget.index
       /\ sendTarget'.chatId
            = DigitsOf(contacts[sendTarget'.index + 1]) \o <<"@", "c", ".", "u", "s">>
       /\ \A k \in 1..Len(contacts) :
            k # sendTarget'.index + 1 =>
              DigitsOf(contacts[k]) \o <<"@", "c", ".", "u", "s">>
                # sendTarget'.chatId]_vars

C33_Witness ==
  /\ pc = "sendMessage"
  /\ sendCalls = 3
  /\ sendTarget.index = 2
  /\ sendTarget.chatId # ChatId(contacts[1])
  /\ sendTarget.chatId # ChatId(contacts[2])
  /\ Len(contacts[3].phone) > Len(sendTarget.chatId) - 5

\* the batch got past its three validations
PassedValidating ==
  \/ pc \in {"isRegisteredUser", "sendMessage", "delay"}
  \/ pc = "returned" /\ exit \in {"completed", "aborted"}

\* C34: no recipient is ever recorded with the reason 'No phone number', and
\* in a batch that got past validation every recipient has a phone; a list
\* holding a recipient without one never gets past validation.
C34_NoPhoneBranchUnreachable ==
  /\ \A k \in 1..Len(details) : ~HasReason(details[k], "No phone number")
  /\ PassedValidating => WithPhone(contacts) = 1..n
  /\ (pc = "returned" /\ WithPhone(contacts) # 1..n) =>
       /\ exit = "invalid"
       /\ regCalls = 0 /\ sendCalls = 0

C34_Witness ==
  /\ pc = "returned" /\ exit = "completed"
  /\ n >= 3
  /\ results.skipped >= 1
  /\ results.sent >= 1
  /\ \A k \in 1..n : HasReason(details[k], "No phone number") = FALSE

\* C35: when every transport call settles and every timed wait elapses, a
\* batch that was called returns its result, one detail per recipient, and
\* stays returned; until then the loop index never goes back and the details
\* only grow, by the recipients the index moved past, so no recipient is
\* processed a second time.
C35_BatchEventuallyReturns ==
  /\ (pc # "start") ~> [](pc = "returned" /\ Len(details) = n)
  /\ [][/\ i' >= i
        /\ Len(results'.details) >= Len(details)
        /\ pc = "returned" => pc' = "returned"
        /\ pc' # "returned" => Len(results'.details) \in {i', i' + 1}]_vars

C35_Witness ==
  /\ pc = "returned" /\ exit = "completed"
  /\ n = MaxContacts
  /\ i = n
  /\ regCalls = n
  /\ delayCalls = n - 1
  /\ results.failed >= 1 /\ results.sent >= 1 /\ results.skipped >= 1

\* a batch suspended at one of its awaits
InFlight(at) == at \in {"isRegisteredUser", "sendMessage", "delay"}

\* C36: the process ends with the ready timer still armed only by the timer
\* firing while main waits for the client, before any 'ready' or
\* 'auth_failure' was handled: exit code 1, no batch started, no transport
\* call made. Once a 'ready' handler has started the timer is cleared, so a
\* process that ends while a batch is suspended was not ended by the timer;
\* and no batch is started before a 'ready' handler has.
C36_TimeoutOnlyBeforeReady ==
  /\ [](/\ main.batches >= 1 => main.readyTimeout = "cleared"
        /\ pc # "start" => main.batches >= 1
        /\ (main.pc = "exited" /\ main.readyTimeout = "armed") =>
             /\ main.exitCode = 1
             /\ main.batches = 0
             /\ pc = "start"
             /\ sendCalls = 0 /\ regCalls = 0)
  /\ [][/\ (main'.pc = "exited" /\ main'.readyTimeout = "armed") =>
             main.pc = "waiting"
        /\ (main'.pc = "exited" /\ InFlight(pc)) =>
             main.readyTimeout = "cleared"
        /\ main.readyTimeout = "cleared" => main'.readyTimeout = "cleared"]_vars

C36_Witness ==
  /\ main.pc = "exited"
  /\ main.readyTimeout = "armed"
  /\ main.exitCode = 1
  /\ main.client = "initialized"
  /\ Len(contacts) = MaxCliContacts
  /\ validateContacts(contacts).valid

\* C37 as claimed: sendBulkMessages is started at most once in a run of the
\* process, so no two batches are ever suspended at the same time.
C37_AtMostOneBatch ==
  /\ main.batches <= 1
  /\ ~(InFlight(pc) /\ InFlight(main.second.pc))

\* C38: of the 'qr' events emitted since the latest 'authenticated' event
\* (or since the client was created) the first 5 render a code and every
\* later one renders none, and an 'authenticated' event sets the attempt
\* counter to 0; the counter is the number of 'qr' events since then.
C38_QrGivesUpAfterFive ==
  /\ [](/\ qrHistory.shown <= 5
        /\ qrHistory.shown = IF qrHistory.since <= 5 THEN qrHistory.since ELSE 5
        /\ qrAttempts = qrHistory.since)
  /\ [][/\ qrHistory'.qr > qrHistory.qr =>
             /\ qrHistory'.rendered <=> qrHistory'.since <= 5
             /\ qrHistory'.shown > qrHistory.shown <=> qrHistory'.since <= 5
             /\ qrAttempts' = qrAttempts + 1
        /\ qrHistory'.authenticated > qrHistory.authenticated =>
             qrAttempts' = 0]_vars

C38_Witness ==
  /\ qrHistory.authenticated = 1
  /\ qrHistory.qr = MaxQrEvents
  /\ qrHistory.since = 6
  /\ qrHistory.shown = 5
  /\ ~qrHistory.rendered
  /\ qrAttempts = 6

====
